---- MODULE Spec2Model ----
(***************************************************************************)
(* ManuscriptGitService (packages/core/src/git/manuscriptGit.ts) over a    *)
(* model of the git engine it drives through simple-git.                   *)
(*                                                                         *)
(* Strings the program parses or formats (file contents, commit messages)  *)
(* are sequences of one-character strings; names that are only compared    *)
(* (paths, branch and tag names) are TLA+ strings.  A tree (a commit's     *)
(* snapshot, the index, the working tree) is a function from the paths     *)
(* present in it to their contents.                                        *)
(***************************************************************************)
EXTENDS Integers, Sequences, FiniteSets, TLC

VARIABLES
    isRepo,     \* the project directory holds a repository (.git exists)
    commits,    \* the object store: sequence of commits, a hash is an index
    branches,   \* branch name -> hash
    head,       \* [branch |-> name, or "" when detached, at |-> hash when detached]
    tags,       \* tag name -> hash
    stash,      \* the stash stack, the most recent entry first
    index,      \* the staging area, a tree
    wt,         \* the working tree, a tree
    today,      \* the calendar day new Date() falls on
    last,       \* the last call made on the service and how it ended
    run,        \* the call in flight: its engine calls still to make
    environ,    \* process.env: GITHUB_TOKEN and GH_TOKEN
    home,       \* ~/.writer/github-token: its content, or that it cannot be read
    remote,     \* the URL of the remote "origin" in the repository's config
    session     \* the service object: where setupAuthentication stands, git.env

vars == <<isRepo, commits, branches, head, tags, stash, index, wt, today, last,
          run, environ, home, remote, session>>

----------------------------------------------------------------------------
(* Bounds of the model *)

\* Commits in the repository, under Spec and under SpecBackup.
MaxCommits == 3
MaxBackupCommits == 2
\* Calendar days a behaviour spans.
MaxDay == 2
\* Largest word count of the codec round trip.
MaxCount == 120
\* Largest limit given to getHistory.
MaxLimit == 4
\* Commits in the repository under SpecInterrupt.
MaxStepCommits == 2
\* Entries on the stash stack.
MaxStash == 1
\* Longest text given to the word counter, character by character.
MaxTextLen == 5

----------------------------------------------------------------------------
(* Characters and literals *)

Whitespace == {" ", "\n", "\t"}
DigitChars == <<"0", "1", "2", "3", "4", "5", "6", "7", "8", "9">>
DigitSet == {DigitChars[i] : i \in 1..10}

EmptyTree == [p \in {} |-> <<>>]

\* File contents used by the model.
TextA == <<"a">>
TextABC == <<"a", " ", " ", "b", "\n", "c", " ">>
TextXY == <<" ", "x", "\t", "y">>
TextEnv == <<"K", "=", "t">>
TextOneTwoThree == <<"o", "n", "e", " ", "t", "w", "o", " ", " ", "t", "h", "r", "e", "e">>

Paths == {"ch1.md", "notes.txt", ".env", ".gitignore"}
ContentsOf(p) ==
    CASE p = "ch1.md" -> {TextA, TextABC}
      [] p = "notes.txt" -> {TextXY}
      [] p = ".env" -> {TextEnv}
      [] OTHER -> {}

PathChars(p) ==
    CASE p = "ch1.md" -> <<"c", "h", "1", ".", "m", "d">>
      [] p = "notes.txt" -> <<"n", "o", "t", "e", "s", ".", "t", "x", "t">>
      [] p = ".env" -> <<".", "e", "n", "v">>
      [] p = ".gitignore" -> <<".", "g", "i", "t", "i", "g", "n", "o", "r", "e">>
      [] OTHER -> <<>>

\* Credential tokens, one per place a token can come from, and the text
\* GITHUB_TOKEN= of a .env line.
TokenArg == <<"t", "A">>
TokenEnv == <<"t", "E">>
TokenGh == <<"t", "G">>
TokenHome == <<"t", "H">>
TokenProject == <<"t", "P">>
LitGithubToken == <<"G", "I", "T", "H", "U", "B", "_", "T", "O", "K", "E", "N", "=">>

\* No token in the environment, no token file, no remote configured.
NoEnviron == [GITHUB_TOKEN |-> <<>>, GH_TOKEN |-> <<>>]
NoTokenFile == [readable |-> FALSE, content |-> <<>>]
NoRemote == <<>>

\* What git writes to stderr when a remote command or a stash command
\* fails, and the content a remote commit gives the chapter.
ErrNoTracking ==
    <<"T", "h", "e", "r", "e", " ", "i", "s", " ", "n", "o", " ", "t", "r", "a", "c", "k", "i", "n", "g", " ", "i", "n", "f", "o", "r", "m", "a", "t", "i", "o", "n", " ", "f", "o", "r", " ", "t", "h", "e", " ", "c", "u", "r", "r", "e", "n", "t", " ", "b", "r", "a", "n", "c", "h", ".">>
ErrRejected ==
    <<"r", "e", "m", "o", "t", "e", ":", " ", "I", "n", "v", "a", "l", "i", "d", " ", "u", "s", "e", "r", "n", "a", "m", "e", " ", "o", "r", " ", "t", "o", "k", "e", "n", ".", " ", "P", "a", "s", "s", "w", "o", "r", "d", " ", "a", "u", "t", "h", "e", "n", "t", "i", "c", "a", "t", "i", "o", "n", " ", "i", "s", " ", "n", "o", "t", " ", "s", "u", "p", "p", "o", "r", "t", "e", "d", " ", "f", "o", "r", " ", "G", "i", "t", " ", "o", "p", "e", "r", "a", "t", "i", "o", "n", "s", ".">>
ErrNoUsername ==
    <<"f", "a", "t", "a", "l", ":", " ", "c", "o", "u", "l", "d", " ", "n", "o", "t", " ", "r", "e", "a", "d", " ", "U", "s", "e", "r", "n", "a", "m", "e", " ", "f", "o", "r", " ", "'", "h", "t", "t", "p", "s", ":", "/", "/", "g", "i", "t", "h", "u", "b", ".", "c", "o", "m", "'", ":", " ", "t", "e", "r", "m", "i", "n", "a", "l", " ", "p", "r", "o", "m", "p", "t", "s", " ", "d", "i", "s", "a", "b", "l", "e", "d">>
ErrNoUpstream ==
    <<"f", "a", "t", "a", "l", ":", " ", "T", "h", "e", " ", "c", "u", "r", "r", "e", "n", "t", " ", "b", "r", "a", "n", "c", "h", " ", "m", "a", "i", "n", " ", "h", "a", "s", " ", "n", "o", " ", "u", "p", "s", "t", "r", "e", "a", "m", " ", "b", "r", "a", "n", "c", "h", ".">>
ErrNoStash ==
    <<"N", "o", " ", "s", "t", "a", "s", "h", " ", "e", "n", "t", "r", "i", "e", "s", " ", "f", "o", "u", "n", "d", ".">>
ErrOverwritten ==
    <<"e", "r", "r", "o", "r", ":", " ", "Y", "o", "u", "r", " ", "l", "o", "c", "a", "l", " ", "c", "h", "a", "n", "g", "e", "s", " ", "t", "o", " ", "t", "h", "e", " ", "f", "o", "l", "l", "o", "w", "i", "n", "g", " ", "f", "i", "l", "e", "s", " ", "w", "o", "u", "l", "d", " ", "b", "e", " ", "o", "v", "e", "r", "w", "r", "i", "t", "t", "e", "n", " ", "b", "y", " ", "m", "e", "r", "g", "e">>
ErrNoInitialCommit ==
    <<"Y", "o", "u", " ", "d", "o", " ", "n", "o", "t", " ", "h", "a", "v", "e", " ", "t", "h", "e", " ", "i", "n", "i", "t", "i", "a", "l", " ", "c", "o", "m", "m", "i", "t", " ", "y", "e", "t">>
TextRemote == <<"a", " ", "r">>

\* Messages a caller passes; <<>> is an omitted (or empty, equally falsy) message.
MsgFix == <<"F", "i", "x">>
MsgPat == <<"(", "7", " ", "w", "o", "r", "d", "s", ")">>
MsgPipe == <<"a", "|", "b", " ", "(", "5", " ", "w", "o", "r", "d", "s", ")">>
NoMessage == <<>>

----------------------------------------------------------------------------
(* Word-count extractor: content.split(/\s+/).filter(w => w.length > 0).length *)

\* String.prototype.split(/\s+/): the pieces between maximal whitespace runs,
\* empty pieces at the ends included.
RECURSIVE SplitWs(_, _, _)
SplitWs(s, i, cur) ==
    IF i > Len(s) THEN <<cur>>
    ELSE IF s[i] \in Whitespace
         THEN IF i > 1 /\ s[i - 1] \in Whitespace
              THEN SplitWs(s, i + 1, cur)
              ELSE <<cur>> \o SplitWs(s, i + 1, <<>>)
         ELSE SplitWs(s, i + 1, Append(cur, s[i]))

NonEmpty(w) == Len(w) > 0

\* The split without the filter(word => word.length > 0).
countWordsUnfiltered(content) == Len(SplitWs(content, 1, <<>>))

countWords(content) == Len(SelectSeq(SplitWs(content, 1, <<>>), NonEmpty))

----------------------------------------------------------------------------
(* Commit-message codec *)

\* Template-literal formatting of a non-negative integer: its decimal digits.
RECURSIVE Dec(_)
Dec(n) == IF n < 10 THEN <<DigitChars[n + 1]>>
          ELSE Dec(n \div 10) \o <<DigitChars[(n % 10) + 1]>>

DigitValue(c) == CHOOSE v \in 0..9 : DigitChars[v + 1] = c

\* parseInt(digits, 10) on a run of decimal digits.
RECURSIVE parseInt(_)
parseInt(ds) == IF Len(ds) = 0 THEN 0
                ELSE 10 * parseInt(SubSeq(ds, 1, Len(ds) - 1)) + DigitValue(ds[Len(ds)])

LitTotal == <<"t", "o", "t", "a", "l">>
LitWord == <<"w", "o", "r", "d">>
SuffixWords == <<" ", "w", "o", "r", "d", "s", ")">>
SuffixTotalWords == <<" ", "t", "o", "t", "a", "l", " ", "w", "o", "r", "d", "s", ")">>

\* The first position >= i of m that holds no character of class (Len(m) + 1 if none).
RECURSIVE SkipWhile(_, _, _)
SkipWhile(m, i, class) ==
    IF i <= Len(m) /\ m[i] \in class THEN SkipWhile(m, i + 1, class) ELSE i

HasLit(m, i, lit) ==
    /\ i >= 1
    /\ i + Len(lit) - 1 <= Len(m)
    /\ SubSeq(m, i, i + Len(lit) - 1) = lit

\* A match of /\((\d+)\s+(?:total\s+)?words?\)/ starting at position i of m:
\* <<digits>> (capture group 1) when there is one, <<>> when there is none.
MatchAt(m, i) ==
    LET d1 == i + 1
        d2 == SkipWhile(m, d1, DigitSet)
        w2 == SkipWhile(m, d2, Whitespace)
        a  == w2 + Len(LitTotal)
        b  == SkipWhile(m, a, Whitespace)
        t  == IF HasLit(m, w2, LitTotal) /\ b > a THEN b ELSE w2
        e  == t + Len(LitWord)
        f  == IF e <= Len(m) /\ m[e] = "s" THEN e + 1 ELSE e
    IN  IF /\ i <= Len(m) /\ m[i] = "("
           /\ d2 > d1
           /\ w2 > d2
           /\ HasLit(m, t, LitWord)
           /\ f <= Len(m) /\ m[f] = ")"
        THEN <<SubSeq(m, d1, d2 - 1)>>
        ELSE <<>>

\* String.prototype.match without the g flag: the leftmost match.
RECURSIVE FirstMatch(_, _)
FirstMatch(m, i) ==
    IF i > Len(m) THEN <<>>
    ELSE IF MatchAt(m, i) # <<>> THEN MatchAt(m, i)
    ELSE FirstMatch(m, i + 1)

\* number | undefined is modelled as <<n>> | <<>>.
Undefined == <<>>

extractWordCountOrZero(message) ==
    LET match == FirstMatch(message, 1)
    IN  IF match # <<>> THEN <<parseInt(match[1])>> ELSE <<0>>

extractWordCountFromMessage(message) ==
    LET match == FirstMatch(message, 1)
    IN  IF match # <<>> THEN <<parseInt(match[1])>> ELSE Undefined

----------------------------------------------------------------------------
(* Trees *)

\* (an empty tree is the empty function, whose domain TLC holds as 1..0)
Has(t, p) == \E q \in DOMAIN t : q = p

\* Path p is the same in trees t1 and t2 (absent in both, or equal content).
Same(t1, t2, p) ==
    /\ Has(t1, p) <=> Has(t2, p)
    /\ Has(t1, p) => t1[p] = t2[p]

\* Tree t with every path of P made as it is in src.
Take(t, src, P) ==
    [q \in (DOMAIN t \ P) \cup (DOMAIN src \cap P) |->
        IF q \in P THEN src[q] ELSE t[q]]

Put(t, p, src) == Take(t, src, {p})

Write(t, p, content) == [q \in DOMAIN t \cup {p} |-> IF q = p THEN content ELSE t[q]]

----------------------------------------------------------------------------
(* The git engine, as simple-git drives it.  An engine call returns        *)
(* [ok, r]: ok = FALSE is a rejected promise (git exited non-zero with     *)
(* output on stderr), and r is the repository after the call.              *)

\* The lines of the ignore file createGitignore writes.
gitignoreContent ==
    <<"# Writer CLI", ".writer/cache/", "exports/*.tmp", "*.backup.*",
      ".DS_Store", "node_modules/", "*.log", ".env">>

DefaultBranch == "main"

NewRepo(tree) ==
    [isRepo |-> FALSE, commits |-> <<>>, branches |-> [b \in {} |-> 0],
     head |-> [branch |-> "", at |-> 0], tags |-> [t \in {} |-> 0],
     stash |-> <<>>, index |-> EmptyTree, wt |-> tree, now |-> 1]

HeadCommit(r) ==
    IF r.head.branch = "" THEN r.head.at
    ELSE IF r.head.branch \in DOMAIN r.branches THEN r.branches[r.head.branch]
    ELSE 0

TreeOf(r, c) == IF c = 0 THEN EmptyTree ELSE r.commits[c].tree

HeadTree(r) == TreeOf(r, HeadCommit(r))

\* A path matched by a line of the working tree's ignore file (the model's
\* paths are matched by name; none matches a glob line).
Ignored(r, p) ==
    /\ Has(r.wt, ".gitignore")
    /\ \E i \in 1..Len(r.wt[".gitignore"]) : r.wt[".gitignore"][i] = p

\* git status: the paths of status.files.
GitStatusFiles(r) ==
    {p \in Paths :
        \/ ~Same(HeadTree(r), r.index, p)
        \/ Has(r.index, p) /\ ~Same(r.index, r.wt, p)
        \/ ~Has(r.index, p) /\ Has(r.wt, p) /\ ~Ignored(r, p)}

\* git init
GitInit(r) ==
    [ok |-> TRUE,
     r |-> [r EXCEPT !.isRepo = TRUE, !.head = [branch |-> DefaultBranch, at |-> 0]]]

\* git add <path>
GitAdd(r, p) ==
    IF ~Has(r.wt, p) /\ ~Has(r.index, p) THEN [ok |-> FALSE, r |-> r]
    ELSE IF ~Has(r.index, p) /\ Ignored(r, p) THEN [ok |-> FALSE, r |-> r]
    ELSE [ok |-> TRUE, r |-> [r EXCEPT !.index = Put(r.index, p, r.wt)]]

\* git add -u: only paths already tracked.
GitAddTracked(r) ==
    [ok |-> TRUE,
     r |-> [r EXCEPT !.index = Take(r.index, r.wt, DOMAIN r.index)]]

\* git add .
GitAddAll(r) ==
    [ok |-> TRUE,
     r |-> [r EXCEPT !.index =
              Take(r.index, r.wt, {p \in Paths : Has(r.index, p) \/ ~Ignored(r, p)})]]

\* git commit -m <message>.  With nothing staged git exits 1 and writes to
\* stdout only, which simple-git resolves with an empty CommitResult.commit
\* (modelled as hash 0).
GitCommit(r, message) ==
    IF r.index = HeadTree(r) THEN [ok |-> TRUE, r |-> r, commit |-> 0]
    ELSE LET new == Len(r.commits) + 1
             c == [parent |-> HeadCommit(r), tree |-> r.index, message |-> message,
                   day |-> r.now]
         IN  [ok |-> TRUE,
              r |-> [r EXCEPT
                       !.commits = Append(r.commits, c),
                       !.branches = IF r.head.branch = "" THEN r.branches
                                    ELSE (r.head.branch :> new) @@ r.branches,
                       !.head = IF r.head.branch = "" THEN [branch |-> "", at |-> new]
                                ELSE r.head],
              commit |-> new]

\* git tag <name>
GitAddTag(r, name) ==
    IF name \in DOMAIN r.tags \/ HeadCommit(r) = 0 THEN [ok |-> FALSE, r |-> r]
    ELSE [ok |-> TRUE, r |-> [r EXCEPT !.tags = (name :> HeadCommit(r)) @@ r.tags]]

\* The paths a switch from HEAD to commit c rewrites, and those among them
\* that make git refuse (local changes or an untracked file in the way).
SwitchUpdates(r, c) ==
    {p \in Paths : ~Same(HeadTree(r), TreeOf(r, c), p) /\ ~Same(r.index, TreeOf(r, c), p)}

SwitchConflicts(r, c) ==
    {p \in SwitchUpdates(r, c) :
        \/ ~Same(r.index, HeadTree(r), p)
        \/ Has(r.index, p) /\ Has(r.wt, p) /\ r.wt[p] # r.index[p]
        \/ ~Has(r.index, p) /\ Has(r.wt, p) /\ ~Ignored(r, p)}

\* A switch that drags the checked-out branch along (git reset --hard).
GitSwitchMovingBranch(r, c, newHead) ==
    IF SwitchConflicts(r, c) # {} THEN [ok |-> FALSE, r |-> r]
    ELSE [ok |-> TRUE,
          r |-> [r EXCEPT
                   !.branches = IF r.head.branch = "" THEN r.branches
                                ELSE (r.head.branch :> c) @@ r.branches,
                   !.head = newHead,
                   !.index = Take(r.index, TreeOf(r, c), SwitchUpdates(r, c)),
                   !.wt = Take(r.wt, TreeOf(r, c), SwitchUpdates(r, c))]]

GitSwitch(r, c, newHead) ==
    IF SwitchConflicts(r, c) # {} THEN [ok |-> FALSE, r |-> r]
    ELSE [ok |-> TRUE,
          r |-> [r EXCEPT
                   !.head = newHead,
                   !.index = Take(r.index, TreeOf(r, c), SwitchUpdates(r, c)),
                   !.wt = Take(r.wt, TreeOf(r, c), SwitchUpdates(r, c))]]

\* git checkout <what>: a branch is switched to, any other commit-ish
\* detaches HEAD, and a name that is no ref is taken as a pathspec and
\* restores the matching tracked file from the index.
GitCheckout(r, what) ==
    IF what \in DOMAIN r.branches
    THEN GitSwitch(r, r.branches[what], [branch |-> what, at |-> 0])
    ELSE IF what \in DOMAIN r.tags
    THEN GitSwitch(r, r.tags[what], [branch |-> "", at |-> r.tags[what]])
    ELSE IF Has(r.index, what)
    THEN [ok |-> TRUE, r |-> [r EXCEPT !.wt = Put(r.wt, what, r.index)]]
    ELSE [ok |-> FALSE, r |-> r]

\* git checkout -b <name>
GitCheckoutLocalBranch(r, name) ==
    IF name \in DOMAIN r.branches THEN [ok |-> FALSE, r |-> r]
    ELSE [ok |-> TRUE,
          r |-> [r EXCEPT
                   !.branches = IF HeadCommit(r) = 0 THEN r.branches
                                ELSE (name :> HeadCommit(r)) @@ r.branches,
                   !.head = [branch |-> name, at |-> 0]]]

\* git log -n <limit>: the hashes reachable from HEAD, most recent first.
\* simple-git's log is taken at its interface, one entry per commit carrying
\* the commit's hash and subject; what the extra --oneline argument does to
\* simple-git's own output format is not modelled.
RECURSIVE Ancestry(_, _, _)
Ancestry(r, c, limit) ==
    IF c = 0 \/ limit <= 0 THEN <<>>
    ELSE <<c>> \o Ancestry(r, r.commits[c].parent, limit - 1)

\* git log without -n.
GitLogUnlimited(r, limit) == Ancestry(r, HeadCommit(r), Len(r.commits))

GitLog(r, limit) == Ancestry(r, HeadCommit(r), limit)

\* git log --since=<now - days>: the commits of HEAD's history made after
\* that moment, most recent first (a commit made that many days ago, at
\* an earlier time of day, is out).
GitLogSince(r, days) ==
    LET all == Ancestry(r, HeadCommit(r), Len(r.commits))
        InWindow(c) == r.commits[c].day > r.now - days
    IN  SelectSeq(all, InWindow)

\* git log --follow -- <path>: the commits of HEAD's history that change
\* the path, most recent first (the model renames no file).
GitLogPath(r, path) ==
    LET all == Ancestry(r, HeadCommit(r), Len(r.commits))
        Touches(c) == ~Same(TreeOf(r, r.commits[c].parent), TreeOf(r, c), path)
    IN  SelectSeq(all, Touches)

\* A revision name: a branch, a tag, or 0 when it names neither.
RevParse(r, rev) ==
    IF rev \in DOMAIN r.branches THEN r.branches[rev]
    ELSE IF rev \in DOMAIN r.tags THEN r.tags[rev]
    ELSE 0

\* The tracked files as the working tree has them.
TrackedWorkTree(r) ==
    [p \in {q \in DOMAIN r.index : Has(r.wt, q)} |-> r.wt[p]]

\* The two sides git diff compares: no revision, the index and the working
\* tree; one revision, that commit and the working tree; two revisions,
\* the two commits.
DiffLeft(r, revs) ==
    IF Len(revs) = 0 THEN r.index ELSE TreeOf(r, RevParse(r, revs[1]))

DiffRight(r, revs) ==
    IF Len(revs) = 2 THEN TreeOf(r, RevParse(r, revs[2])) ELSE TrackedWorkTree(r)

\* The order git lists paths in.
PathOrder == <<".env", ".gitignore", "ch1.md", "notes.txt">>

\* The lines of a file of a tree (0 when the tree has no such file).
LineCount(tree, p) ==
    IF ~Has(tree, p) THEN 0
    ELSE IF p = ".gitignore" THEN Len(tree[p])
    ELSE 1 + Cardinality({i \in 1..Len(tree[p]) : tree[p][i] = "\n"})

RECURSIVE SumOver(_, _)
SumOver(seq, field) ==
    IF seq = <<>> THEN 0 ELSE seq[1][field] + SumOver(Tail(seq), field)

\* git diff --stat <revs>, as simple-git's diffSummary gives it: one entry
\* per path that differs, and the totals.
GitDiffSummary(r, revs) ==
    IF \E i \in 1..Len(revs) : RevParse(r, revs[i]) = 0
    THEN [ok |-> FALSE, r |-> r, files |-> <<>>, insertions |-> 0, deletions |-> 0]
    ELSE LET left == DiffLeft(r, revs)
             right == DiffRight(r, revs)
             Differs(p) == ~Same(left, right, p)
             changed == SelectSeq(PathOrder, Differs)
             files == [i \in 1..Len(changed) |->
                          [file |-> changed[i],
                           insertions |-> LineCount(right, changed[i]),
                           deletions |-> LineCount(left, changed[i])]]
         IN  [ok |-> TRUE, r |-> r, files |-> files,
              insertions |-> SumOver(files, "insertions"),
              deletions |-> SumOver(files, "deletions")]

RECURSIVE NameLines(_)
NameLines(paths) ==
    IF paths = <<>> THEN <<>>
    ELSE PathChars(paths[1]) \o <<"\n">> \o NameLines(Tail(paths))

\* git diff --name-only <revs>: the text git prints, one path per line.
GitDiffNameOnly(r, revs) ==
    IF \E i \in 1..Len(revs) : RevParse(r, revs[i]) = 0
    THEN [ok |-> FALSE, r |-> r, out |-> <<>>]
    ELSE LET left == DiffLeft(r, revs)
             right == DiffRight(r, revs)
             Differs(p) == ~Same(left, right, p)
         IN  [ok |-> TRUE, r |-> r, out |-> NameLines(SelectSeq(PathOrder, Differs))]

\* git stash push: the changes to tracked files are saved as an entry
\* (the commit they are based on and the tracked files as the working tree
\* has them) and the index and the tracked files are reset to HEAD;
\* untracked files are left alone, and with no change to a tracked file
\* nothing is saved and git exits 0.
GitStashPush(r) ==
    LET changed == {p \in Paths :
                       \/ ~Same(HeadTree(r), r.index, p)
                       \/ Has(r.index, p) /\ ~Same(r.index, r.wt, p)}
        entry == [base |-> HeadCommit(r), wt |-> TrackedWorkTree(r)]
    IN  IF HeadCommit(r) = 0 THEN [ok |-> FALSE, r |-> r, message |-> ErrNoInitialCommit]
        ELSE IF changed = {} THEN [ok |-> TRUE, r |-> r, message |-> <<>>]
        ELSE [ok |-> TRUE,
              r |-> [r EXCEPT
                       !.stash = <<entry>> \o r.stash,
                       !.index = HeadTree(r),
                       !.wt = Take(r.wt, HeadTree(r), DOMAIN HeadTree(r) \cup DOMAIN r.index)],
              message |-> <<>>]

\* The content of a file of a tree, empty when the tree has no such file.
ContentOr(tree, p) == IF Has(tree, p) THEN tree[p] ELSE <<>>

\* A file left with conflict markers around the two versions.
ConflictText(ours, theirs) == <<"<">> \o ours \o <<"=">> \o theirs \o <<">">>

\* git stash pop: the most recent entry is merged into the working tree and
\* dropped.  With no entry git fails; a local change or an untracked file in
\* the way makes it refuse; a path changed both by the entry and since its
\* base is left with conflict markers and the entry is kept, which git
\* reports on stdout with exit code 1, so that simple-git resolves.
GitStashPop(r) ==
    IF r.stash = <<>> THEN [ok |-> FALSE, r |-> r, message |-> ErrNoStash]
    ELSE LET entry == r.stash[1]
             base == TreeOf(r, entry.base)
             changes == {p \in Paths : ~Same(base, entry.wt, p)}
             blocked == {p \in changes :
                            ~Same(r.index, r.wt, p) \/ ~Same(HeadTree(r), r.index, p)}
             conflicts == {p \in changes :
                              ~Same(base, HeadTree(r), p) /\ ~Same(HeadTree(r), entry.wt, p)}
             applied == {p \in changes : Same(base, HeadTree(r), p)}
             merged == Take(r.wt, entry.wt, applied)
             marked == [p \in DOMAIN merged \cup conflicts |->
                           IF p \in conflicts
                           THEN ConflictText(ContentOr(HeadTree(r), p), ContentOr(entry.wt, p))
                           ELSE merged[p]]
             added == {p \in applied : ~Has(base, p)}
         IN  IF blocked # {} THEN [ok |-> FALSE, r |-> r, message |-> ErrOverwritten]
             ELSE [ok |-> TRUE,
                   r |-> [r EXCEPT
                            !.stash = IF conflicts # {} THEN r.stash ELSE Tail(r.stash),
                            !.index = Take(r.index, entry.wt, added),
                            !.wt = marked],
                   message |-> <<>>]

\* git pull origin <branch>, by what the remote answers: an error (the
\* repository is left alone), nothing new, or one commit on top of HEAD
\* that changes the chapter, which is fast-forwarded to unless a local
\* change or an untracked file is in the way.
GitPull(r, outcome) ==
    LET p == "ch1.md"
        tree == Write(HeadTree(r), p, TextRemote)
        new == Len(r.commits) + 1
        c == [parent |-> HeadCommit(r), tree |-> tree, message |-> MsgFix, day |-> r.now]
    IN  IF outcome.kind = "error" THEN [ok |-> FALSE, r |-> r, message |-> outcome.message]
        ELSE IF outcome.kind = "upToDate" \/ Same(HeadTree(r), tree, p) \/ HeadCommit(r) = 0
             THEN [ok |-> TRUE, r |-> r, message |-> <<>>]
        ELSE IF ~Same(r.index, r.wt, p) \/ ~Same(HeadTree(r), r.index, p)
             THEN [ok |-> FALSE, r |-> r, message |-> ErrOverwritten]
        ELSE [ok |-> TRUE,
              r |-> [r EXCEPT
                       !.commits = Append(r.commits, c),
                       !.branches = IF r.head.branch = "" THEN r.branches
                                    ELSE (r.head.branch :> new) @@ r.branches,
                       !.head = IF r.head.branch = "" THEN [branch |-> "", at |-> new]
                                ELSE r.head,
                       !.index = Put(r.index, p, tree),
                       !.wt = Put(r.wt, p, tree)],
              message |-> <<>>]

----------------------------------------------------------------------------
(* ManuscriptGitService.  An operation returns [ok, r, commit, tag]:        *)
(* ok = FALSE is a rejected promise, r the repository it leaves, commit    *)
(* and tag the value it resolves with (0 and "" when it has none).         *)

Result(ok, r, commit, tag) == [ok |-> ok, r |-> r, commit |-> commit, tag |-> tag]

InitialCommitMessage ==
    <<"I", "n", "i", "t", "i", "a", "l", " ", "c", "o", "m", "m", "i", "t", ":", " ", "W", "r", "i", "t", "e", "r", " ", "p", "r", "o", "j", "e", "c", "t", " ", "s", "e", "t", "u", "p">>

\* new Date().toISOString().split('T')[0]
timestamp(day) == <<"2", "0", "2", "5", "-", "0", "1", "-", "0">> \o Dec(day)
timestampName(day) == "2025-01-0" \o ToString(day)

IsWritingFile(p) == p \in {"ch1.md", "notes.txt"}

\* initialize without the checkIsRepo guard.
initializeUnguarded(r) ==
    LET r1 == GitInit(r).r
        r2 == [r1 EXCEPT !.wt = Write(r1.wt, ".gitignore", gitignoreContent)]
        a  == GitAdd(r2, ".gitignore")
        c  == GitCommit(a.r, InitialCommitMessage)
    IN  IF ~a.ok THEN Result(FALSE, a.r, 0, "")
        ELSE Result(c.ok, c.r, 0, "")

\* initialize staging with git add . instead of git add .gitignore
initializeStagingAll(r) ==
    IF r.isRepo THEN Result(TRUE, r, 0, "")
    ELSE LET r1 == GitInit(r).r
             r2 == [r1 EXCEPT !.wt = Write(r1.wt, ".gitignore", gitignoreContent)]
             a  == GitAddAll(r2)
             c  == GitCommit(a.r, InitialCommitMessage)
         IN  Result(c.ok, c.r, 0, "")

initialize(r) ==
    IF r.isRepo THEN Result(TRUE, r, 0, "")
    ELSE LET r1 == GitInit(r).r
             r2 == [r1 EXCEPT !.wt = Write(r1.wt, ".gitignore", gitignoreContent)]
             a  == GitAdd(r2, ".gitignore")
             c  == GitCommit(a.r, InitialCommitMessage)
         IN  IF ~a.ok THEN Result(FALSE, a.r, 0, "")
             ELSE Result(c.ok, c.r, 0, "")

\* readFile + split + filter; a file that cannot be read counts 0.
getWordCount(r, filePath) ==
    IF Has(r.wt, filePath) THEN countWords(r.wt[filePath]) ELSE 0

RECURSIVE SumWordCounts(_, _)
SumWordCounts(r, files) ==
    IF files = {} THEN 0
    ELSE LET f == CHOOSE f \in files : TRUE
         IN  (IF IsWritingFile(f) THEN getWordCount(r, f) ELSE 0)
             + SumWordCounts(r, files \ {f})

getTotalWordCount(r) == SumWordCounts(r, GitStatusFiles(r))

\* `${message} (${wordCount} words)`
encodeWords(message, wordCount) == message \o <<" ", "(">> \o Dec(wordCount) \o SuffixWords
\* The suffix written as "(N words total)".
encodeTotalWordsSwapped(message, total) ==
    message \o <<" ", "(">> \o Dec(total) \o <<" ", "w", "o", "r", "d", "s", " ", "t", "o", "t", "a", "l", ")">>

\* `${message} (${totalWordCount} total words)`
encodeTotalWords(message, total) == message \o <<" ", "(">> \o Dec(total) \o SuffixTotalWords

commitChapterMessage(r, chapterPath, message) ==
    LET wordCount == getWordCount(r, chapterPath)
        defaultMessage == encodeWords(<<"U", "p", "d", "a", "t", "e", " ">> \o PathChars(chapterPath), wordCount)
    IN  IF message # <<>> THEN message ELSE defaultMessage

commitChapter(r, chapterPath, message) ==
    LET a == GitAdd(r, chapterPath)
        c == GitCommit(a.r, commitChapterMessage(r, chapterPath, message))
    IN  IF ~a.ok THEN Result(FALSE, a.r, 0, "")
        ELSE Result(c.ok, c.r, c.commit, "")

\* commitAll staging with git add -u instead of git add .
commitAllTrackedOnly(r, message) ==
    LET enhancedMessage == encodeTotalWords(message, getTotalWordCount(r))
        c == GitCommit(GitAddTracked(r).r, enhancedMessage)
    IN  Result(c.ok, c.r, c.commit, "")

commitAll(r, message) ==
    LET totalWordCount == getTotalWordCount(r)
        enhancedMessage == encodeTotalWords(message, totalWordCount)
        a == GitAddAll(r)
        c == GitCommit(a.r, enhancedMessage)
    IN  Result(c.ok, c.r, c.commit, "")

createDraftTag(r, tagName) ==
    LET t == GitAddTag(r, tagName)
    IN  Result(t.ok, t.r, 0, "")

backupTagName(day) == "backup-" \o timestampName(day)

backupMessage(message, day) ==
    IF message # <<>> THEN message ELSE <<"B", "a", "c", "k", "u", "p", ":", " ">> \o timestamp(day)

backup(r, message, day) ==
    LET backupTag == backupTagName(day)
        c == commitAll(r, backupMessage(message, day))
        t == createDraftTag(c.r, backupTag)
    IN  IF ~c.ok THEN Result(FALSE, c.r, 0, "")
        ELSE IF ~t.ok THEN Result(FALSE, t.r, 0, "")
        ELSE Result(TRUE, t.r, c.commit, backupTag)

restoreBranchName(tag) == "restore-" \o tag

restoreFromBackup(r, tag) ==
    LET a == GitCheckout(r, tag)
        b == GitCheckoutLocalBranch(a.r, restoreBranchName(tag))
    IN  IF ~a.ok THEN Result(FALSE, a.r, 0, "")
        ELSE Result(b.ok, b.r, 0, "")

\* getHistory(limit): one record per commit of the log, most recent first.
getHistory(r, limit) ==
    LET log == GitLog(r, limit)
    IN  [i \in 1..Len(log) |->
            [hash |-> log[i],
             date |-> r.commits[log[i]].day,
             message |-> r.commits[log[i]].message,
             wordCount |-> extractWordCountFromMessage(r.commits[log[i]].message)]]

\* getChapterHistory(chapterPath): one record per commit of the path's log;
\* the records are built without a wordCount.
getChapterHistory(r, chapterPath) ==
    LET log == GitLogPath(r, chapterPath)
    IN  [i \in 1..Len(log) |->
            [hash |-> log[i],
             date |-> r.commits[log[i]].day,
             message |-> r.commits[log[i]].message,
             wordCount |-> Undefined]]

\* String.prototype.split(sep) for a one-character separator.
RECURSIVE SplitOn(_, _, _, _)
SplitOn(s, sep, i, cur) ==
    IF i > Len(s) THEN <<cur>>
    ELSE IF s[i] = sep THEN <<cur>> \o SplitOn(s, sep, i + 1, <<>>)
    ELSE SplitOn(s, sep, i + 1, Append(cur, s[i]))

\* %h and %ai of a commit.
AbbreviatedHash(c) == <<"c", "0", "f", "f", "e", "e">> \o Dec(c)
AuthorDate(day) ==
    timestamp(day) \o <<" ", "0", "9", ":", "0", "0", ":", "0", "0", " ", "+", "0", "0", "0", "0">>

\* The line --pretty=format:%h|%ai|%s prints for commit c, which is what
\* the entry's hash field holds.
PrettyLine(r, c) ==
    AbbreviatedHash(c) \o <<"|">> \o AuthorDate(r.commits[c].day) \o <<"|">>
        \o r.commits[c].message

\* The loop of getWordCountHistory over the entries, oldest first.
RECURSIVE WordCountEntries(_, _)
WordCountEntries(lines, previousCount) ==
    IF lines = <<>> THEN <<>>
    ELSE LET parts == SplitOn(lines[1], "|", 1, <<>>)
             date == parts[2]
             message == parts[3]
             decoded == extractWordCountFromMessage(message)
             wordCount == IF decoded # Undefined /\ decoded[1] # 0 THEN decoded[1] ELSE 0
         IN  <<[date |-> SplitOn(date, " ", 1, <<>>)[1],
                wordCount |-> wordCount,
                change |-> wordCount - previousCount]>>
             \o WordCountEntries(Tail(lines), wordCount)

Reverse(seq) == [i \in 1..Len(seq) |-> seq[Len(seq) + 1 - i]]

getWordCountHistory(r, days) ==
    LET log == GitLogSince(r, days)
        all == [i \in 1..Len(log) |-> PrettyLine(r, log[i])]
    IN  WordCountEntries(Reverse(all), 0)

\* getDiff(fromCommit?, toCommit?); an omitted (or empty) ref is "".
getDiff(r, fromCommit, toCommit) ==
    LET args == (IF fromCommit # "" THEN <<fromCommit>> ELSE <<>>)
                \o (IF toCommit # "" THEN <<toCommit>> ELSE <<>>)
        diffStat == GitDiffSummary(r, args)
        \* Math.round((insertions - deletions) / 5)
        netWordChange == (2 * (diffStat.insertions - diffStat.deletions) + 5) \div 10
    IN  [ok |-> diffStat.ok, r |-> diffStat.r,
         diff |-> [filesChanged |-> Len(diffStat.files),
                   insertions |-> diffStat.insertions,
                   deletions |-> diffStat.deletions,
                   netWordChange |-> netWordChange]]

\* compareVersions without the filter(f => f) on the split lines.
compareVersionsUnfiltered(r, tag1, tag2) ==
    LET d == getDiff(r, tag1, tag2)
        files == GitDiffNameOnly(d.r, <<tag1, tag2>>)
    IN  [ok |-> d.ok /\ files.ok, r |-> files.r, diff |-> d.diff,
         files |-> SplitOn(files.out, "\n", 1, <<>>)]

compareVersions(r, tag1, tag2) ==
    LET d == getDiff(r, tag1, tag2)
        files == GitDiffNameOnly(d.r, <<tag1, tag2>>)
    IN  [ok |-> d.ok /\ files.ok, r |-> files.r, diff |-> d.diff,
         files |-> SelectSeq(SplitOn(files.out, "\n", 1, <<>>), NonEmpty)]

\* String.prototype.trim
RECURSIVE TrimLeft(_)
TrimLeft(t) == IF t # <<>> /\ t[1] \in Whitespace THEN TrimLeft(Tail(t)) ELSE t

RECURSIVE TrimRight(_)
TrimRight(t) ==
    IF t # <<>> /\ t[Len(t)] \in Whitespace THEN TrimRight(SubSeq(t, 1, Len(t) - 1)) ELSE t

Trim(t) == TrimLeft(TrimRight(t))

\* The first position >= i of t that holds a line terminator (Len(t) + 1 if none).
RECURSIVE LineEnd(_, _)
LineEnd(t, i) == IF i <= Len(t) /\ t[i] # "\n" THEN LineEnd(t, i + 1) ELSE i

\* envContent.match(/GITHUB_TOKEN=(.+)/): <<capture group 1>> of the
\* leftmost match, <<>> when there is none.
RECURSIVE MatchGithubToken(_, _)
MatchGithubToken(t, i) ==
    LET v == i + Len(LitGithubToken)
    IN  IF v > Len(t) THEN <<>>
        ELSE IF HasLit(t, i, LitGithubToken) /\ LineEnd(t, v) > v
             THEN <<SubSeq(t, v, LineEnd(t, v) - 1)>>
             ELSE MatchGithubToken(t, i + 1)

\* string | null is modelled as <<string>> | <<>>.
Null == <<>>

getGitHubToken(env, tokenFile, tree) ==
    LET envToken == IF env.GITHUB_TOKEN # <<>> THEN env.GITHUB_TOKEN ELSE env.GH_TOKEN
        match == IF Has(tree, ".env") THEN MatchGithubToken(tree[".env"], 1) ELSE <<>>
    IN  IF envToken # <<>> THEN <<envToken>>
        ELSE IF tokenFile.readable THEN <<Trim(tokenFile.content)>>
        ELSE IF match # <<>> THEN <<Trim(match[1])>>
        ELSE Null

\* String.prototype.includes
Includes(t, lit) == \E i \in 1..Len(t) : HasLit(t, i, lit)

GithubPrefix == <<"h", "t", "t", "p", "s", ":", "/", "/", "g", "i", "t", "h", "u", "b", ".", "c", "o", "m", "/">>
RemoteArg == GithubPrefix \o <<"u", "/", "n", ".", "g", "i", "t">>
AutoCommitMessage == <<"A", "u", "t", "o", "-", "c", "o", "m", "m", "i", "t", " ", "b", "e", "f", "o", "r", "e", " ", "s", "y", "n", "c">>

\* sync: argv.token || process.env.GITHUB_TOKEN || process.env.GH_TOKEN
\* (<<>> is undefined).
syncToken(argvToken, env) ==
    IF argvToken # <<>> THEN argvToken
    ELSE IF env.GITHUB_TOKEN # <<>> THEN env.GITHUB_TOKEN
    ELSE env.GH_TOKEN

\* sync --setup --remote <url> [--token <token>]: the remote URL it
\* configures and the repository it leaves.
syncSetup(r, argvToken, argvRemote, env) ==
    LET i == initialize(r)
        token == syncToken(argvToken, env)
        remoteUrl ==
            IF token # <<>> /\ HasLit(argvRemote, 1, GithubPrefix)
            THEN <<"h", "t", "t", "p", "s", ":", "/", "/">> \o token \o <<"@", "g", "i", "t", "h", "u", "b", ".", "c", "o", "m", "/">>
                 \o SubSeq(argvRemote, Len(GithubPrefix) + 1, Len(argvRemote))
            ELSE argvRemote
        envContent == IF Has(i.r.wt, ".env") THEN i.r.wt[".env"] ELSE <<>>
        written == envContent \o (IF envContent # <<>> THEN <<"\n">> ELSE <<>>)
                   \o LitGithubToken \o token \o <<"\n">>
    IN  IF ~i.ok THEN [ok |-> FALSE, r |-> i.r, remote |-> NoRemote, set |-> FALSE]
        ELSE [ok |-> TRUE,
              r |-> IF token # <<>> /\ argvToken # <<>> /\ ~Includes(envContent, LitGithubToken)
                    THEN [i.r EXCEPT !.wt = Write(i.r.wt, ".env", written)]
                    ELSE i.r,
              remote |-> remoteUrl, set |-> TRUE]

\* sync --push: without a remote the command exits; otherwise outstanding
\* changes are committed and the branch is pushed.
syncPush(r, origin) ==
    LET i == initialize(r)
        c == IF GitStatusFiles(i.r) # {} THEN commitAll(i.r, AutoCommitMessage)
             ELSE Result(TRUE, i.r, 0, "")
    IN  IF ~i.ok \/ origin = NoRemote THEN Result(FALSE, i.r, 0, "")
        ELSE c

\* The texts the sync command looks for in an error's message.
LitNoTracking == <<"n", "o", " ", "t", "r", "a", "c", "k", "i", "n", "g", " ", "i", "n", "f", "o", "r", "m", "a", "t", "i", "o", "n">>
LitNoUpstream == <<"n", "o", " ", "u", "p", "s", "t", "r", "e", "a", "m", " ", "b", "r", "a", "n", "c", "h">>
LitAuthentication == <<"a", "u", "t", "h", "e", "n", "t", "i", "c", "a", "t", "i", "o", "n">>
Lit401 == <<"4", "0", "1">>

\* An engine call that was not made, or resolved.
Resolved(r) == [ok |-> TRUE, r |-> r, message |-> <<>>]

\* The pull phase of sync: stash the local changes if status lists any
\* file, pull, pop the stash if status listed any file; an error whose
\* message includes 'no tracking information' is answered by setting the
\* upstream and pulling again, any other error is thrown on.
syncPullPhase(r, pull, pullAgain) ==
    LET hasChanges == GitStatusFiles(r) # {}
        stashed == IF hasChanges THEN GitStashPush(r) ELSE Resolved(r)
        pulled == GitPull(stashed.r, pull)
        popped == IF hasChanges THEN GitStashPop(pulled.r) ELSE Resolved(pulled.r)
        tried == IF ~stashed.ok THEN stashed
                 ELSE IF ~pulled.ok THEN pulled
                 ELSE popped
    IN  IF tried.ok THEN tried
        ELSE IF Includes(tried.message, LitNoTracking) THEN GitPull(tried.r, pullAgain)
        ELSE tried

\* The push phase of sync: commit what is outstanding and push; 'no
\* upstream branch' is answered by pushing with --set-upstream, and an
\* error whose message includes 'authentication' or '401' by the token
\* guidance and exit code 1; any other error is thrown on.
syncPushPhase(r, push, pushAgain) ==
    LET c == IF GitStatusFiles(r) # {} THEN commitAll(r, AutoCommitMessage)
             ELSE Result(TRUE, r, 0, "")
        failed == push.kind = "error"
        again == failed /\ Includes(push.message, LitNoUpstream)
        guided == /\ failed /\ ~again
                  /\ Includes(push.message, LitAuthentication) \/ Includes(push.message, Lit401)
    IN  [r |-> c.r,
         guidance |-> guided,
         \* the error thrown on to the handler's catch, <<>> when none is
         message |-> IF again THEN pushAgain.message
                     ELSE IF failed /\ ~guided THEN push.message
                     ELSE <<>>,
         \* the message of the remote command that failed last
         cause |-> IF again THEN pushAgain.message
                   ELSE IF failed THEN push.message ELSE <<>>]

\* What a run of sync [--push] [--pull] ends with: the exit code, whether
\* the token guidance was printed, the error message printed after
\* 'Sync failed:' (<<>> when none was), and the repository it leaves.
SyncEnd(r, exit, guidance, surfaced, phase, cause) ==
    [r |-> r, exit |-> exit, guidance |-> guidance, surfaced |-> surfaced,
     phase |-> phase, cause |-> cause]

\* sync without --setup; out holds what the remote answers to the pull,
\* the second pull, the push and the second push.
sync(r, origin, argvPush, argvPull, out) ==
    LET i == initialize(r)
        doPush == argvPush \/ (~argvPush /\ ~argvPull)
        doPull == argvPull \/ (~argvPush /\ ~argvPull)
        pulled == IF doPull THEN syncPullPhase(i.r, out.pull, out.pullAgain) ELSE Resolved(i.r)
        pushed == syncPushPhase(pulled.r, out.push, out.pushAgain)
    IN  IF ~i.ok \/ origin = NoRemote THEN SyncEnd(i.r, 1, FALSE, <<>>, "", <<>>)
        ELSE IF ~pulled.ok THEN SyncEnd(pulled.r, 1, FALSE, pulled.message, "pull", pulled.message)
        ELSE IF ~doPush THEN SyncEnd(pulled.r, 0, FALSE, <<>>, "pull", <<>>)
        ELSE IF pushed.guidance THEN SyncEnd(pushed.r, 1, TRUE, <<>>, "push", pushed.cause)
        ELSE IF pushed.message # <<>>
             THEN SyncEnd(pushed.r, 1, FALSE, pushed.message, "push", pushed.cause)
        ELSE SyncEnd(pushed.r, 0, FALSE, <<>>, "push", <<>>)

\* The text of a tag name given on the command line.
TagChars(tag) == IF tag = "v1" THEN <<"v", "1">> ELSE <<>>

\* backup [tag] [--message m]: the snapshot is made by backup(message) and
\* the tag reported is the one backup returns.
backupCommand(r, argvTag, argvMessage, day) ==
    LET i == initialize(r)
        backupTag == IF argvTag # "" THEN "draft-" \o argvTag ELSE ""
        message == IF argvMessage # <<>> THEN argvMessage
                   ELSE IF argvTag # ""
                        THEN <<"D", "r", "a", "f", "t", " ", "b", "a", "c", "k", "u", "p", ":", " ">> \o TagChars(argvTag)
                        ELSE <<>>
        b == backup(i.r, message, day)
    IN  IF ~i.ok THEN Result(FALSE, i.r, 0, "") ELSE b

\* The number of log entries backup --list looks at.
ListLimit == 50

LitBackupColon == <<"B", "a", "c", "k", "u", "p", ":">>
LitDraftColon == <<"D", "r", "a", "f", "t", ":">>

\* The filter of backup --list: the message includes 'Backup:' or 'Draft:'.
IsListed(h) == Includes(h.message, LitBackupColon) \/ Includes(h.message, LitDraftColon)

\* backup --list not filtering the history.
backupListUnfiltered(r) ==
    LET i == initialize(r)
    IN  [ok |-> i.ok, r |-> i.r,
         backups |-> IF i.ok THEN getHistory(i.r, ListLimit) ELSE <<>>]

\* backup --list: the records of the last 50 commits that pass the filter.
backupList(r) ==
    LET i == initialize(r)
    IN  [ok |-> i.ok, r |-> i.r,
         backups |-> IF i.ok THEN SelectSeq(getHistory(i.r, ListLimit), IsListed) ELSE <<>>]

\* The trailing window of visualizeProgress, in days, and the width of a
\* full bar.
ProgressDays == 30
BarWidth == 50

LitNoHistory ==
    <<"N", "o", " ", "w", "r", "i", "t", "i", "n", "g", " ", "h", "i", "s", "t", "o", "r", "y", " ", "f", "o", "u", "n", "d", ".">>
LitProgressTitle ==
    <<"W", "r", "i", "t", "i", "n", "g", " ", "P", "r", "o", "g", "r", "e", "s", "s", " ", "(", "L", "a", "s", "t", " ", "3", "0", " ", "D", "a", "y", "s", ")">>

\* The character a bar is made of (the full block of the source).
BarChar == "#"

\* String.prototype.repeat for a count that is a finite integer >= 0.
Repeated(c, n) == [i \in 1..n |-> c]

\* A number of the chart: a finite integer, NaN or Infinity.
Finite(v) == [kind |-> "finite", v |-> v]
NaN == [kind |-> "NaN", v |-> 0]
Infinity == [kind |-> "Infinity", v |-> 0]

\* Math.max(...history.map(h => h.wordCount)) of a history with entries.
RECURSIVE MaxWordCount(_)
MaxWordCount(history) ==
    IF Len(history) = 1 THEN history[1].wordCount
    ELSE LET rest == MaxWordCount(Tail(history))
         IN  IF history[1].wordCount > rest THEN history[1].wordCount ELSE rest

\* Math.round(wordCount * scale) with scale = 50 / maxWords: the product
\* rounded half up; 50 / 0 is Infinity, 0 * Infinity is NaN and
\* Math.round(NaN) is NaN.
barLength(wordCount, maxWords) ==
    IF maxWords = 0
    THEN IF wordCount = 0 THEN NaN ELSE Infinity
    ELSE Finite((2 * wordCount * BarWidth + maxWords) \div (2 * maxWords))

\* 'x'.repeat(count): NaN counts as 0; a negative or infinite count throws
\* a RangeError.
repeat(c, count) ==
    IF count.kind = "NaN" THEN [ok |-> TRUE, out |-> <<>>]
    ELSE IF count.kind = "Infinity" \/ count.v < 0 THEN [ok |-> FALSE, out |-> <<>>]
    ELSE [ok |-> TRUE, out |-> Repeated(c, count.v)]

\* `${n}` of an integer.
SignedDec(n) == IF n < 0 THEN <<"-">> \o Dec(0 - n) ELSE Dec(n)

\* The chart lines of the entries, each ended by a line terminator; ok is
\* FALSE when drawing a bar threw.
RECURSIVE ProgressLines(_, _)
ProgressLines(history, maxWords) ==
    IF history = <<>> THEN [ok |-> TRUE, out |-> <<>>]
    ELSE LET entry == history[1]
             bar == repeat(BarChar, barLength(entry.wordCount, maxWords))
             change == IF entry.change > 0 THEN <<"+">> \o Dec(entry.change)
                       ELSE SignedDec(entry.change)
             line == entry.date \o <<" ">> \o bar.out \o <<" ">> \o Dec(entry.wordCount)
                     \o <<" ", "w", "o", "r", "d", "s", " ", "(">> \o change \o <<")", "\n">>
             rest == ProgressLines(Tail(history), maxWords)
         IN  IF ~bar.ok THEN [ok |-> FALSE, out |-> <<>>]
             ELSE IF ~rest.ok THEN rest
             ELSE [ok |-> TRUE, out |-> line \o rest.out]

ProgressHeader ==
    LitProgressTitle \o <<"\n">> \o Repeated("=", 60) \o <<"\n">>

\* The chart of a history without the history.length === 0 return (the
\* loop over no entry leaves the header alone).
renderUnguarded(history) ==
    LET lines == IF history = <<>> THEN [ok |-> TRUE, out |-> <<>>]
                 ELSE ProgressLines(history, MaxWordCount(history))
    IN  [ok |-> lines.ok, out |-> IF lines.ok THEN ProgressHeader \o lines.out ELSE <<>>]

\* What visualizeProgress makes of the history it has read.
render(history) ==
    LET lines == ProgressLines(history, MaxWordCount(history))
    IN  IF Len(history) = 0 THEN [ok |-> TRUE, out |-> LitNoHistory]
        ELSE [ok |-> lines.ok, out |-> IF lines.ok THEN ProgressHeader \o lines.out ELSE <<>>]

\* const history = await this.getWordCountHistory(30), read once, and the
\* chart made of it.
visualizeProgress(r) ==
    CHOOSE res \in {render(history) : history \in {getWordCountHistory(r, ProgressDays)}} : TRUE

----------------------------------------------------------------------------
(* State machine *)

Repo ==
    [isRepo |-> isRepo, commits |-> commits, branches |-> branches, head |-> head,
     tags |-> tags, stash |-> stash, index |-> index, wt |-> wt, now |-> today]

SetRepo(r) ==
    /\ isRepo' = r.isRepo
    /\ commits' = r.commits
    /\ branches' = r.branches
    /\ head' = r.head
    /\ tags' = r.tags
    /\ stash' = r.stash
    /\ index' = r.index
    /\ wt' = r.wt

Call(op, arg, msg, res) ==
    [op |-> op, ok |-> res.ok, arg |-> arg, msg |-> msg,
     commit |-> res.commit, tag |-> res.tag, value |-> <<>>]

\* A query that resolved (ok) or rejected with the value it gives.
Answer(op, ok, value) ==
    [op |-> op, ok |-> ok, arg |-> "", msg |-> <<>>, commit |-> 0, tag |-> "",
     value |-> value]

NoCall(op) ==
    [op |-> op, ok |-> TRUE, arg |-> "", msg |-> <<>>, commit |-> 0, tag |-> "",
     value |-> <<>>]

\* Files the writer edits by hand, paths given to commit --chapter, messages
\* given to the commands, and names given to backup --restore.
EditablePaths == {"ch1.md", "notes.txt", ".env"}
RemovablePaths == {"ch1.md"}
BackupEditablePaths == {"ch1.md", ".env"}
ChapterArgs == {"ch1.md"}
ChapterMessages == {NoMessage, MsgFix}
CommitMessages == {MsgFix}
BackupMessages == {NoMessage}
RestoreArgs == {backupTagName(1), "draft-v1", "ch1.md"}

\* A project directory that is not a repository yet.
FreshDirectory == NewRepo(EmptyTree)

\* A repository the writer made by hand before the service first ran: one
\* commit, no ignore file.
ExistingRepository ==
    LET tree == [p \in {"ch1.md"} |-> TextA]
    IN  [isRepo |-> TRUE,
         commits |-> <<[parent |-> 0, tree |-> tree, message |-> MsgFix, day |-> 1]>>,
         branches |-> [b \in {DefaultBranch} |-> 1],
         head |-> [branch |-> DefaultBranch, at |-> 0],
         tags |-> [t \in {} |-> 0],
         stash |-> <<>>,
         index |-> tree,
         wt |-> tree,
         now |-> 1]

\* No service object: setupAuthentication has not started, no token is held
\* (string | null as <<string>> | <<>>) and git.env was given no credentials.
NoSession == [auth |-> "none", token |-> <<>>, credential |-> <<>>]

\* No call in flight.
Idle ==
    [op |-> "", arg |-> "", msg |-> <<>>, calls |-> <<>>, made |-> 0,
     before |-> NewRepo(EmptyTree)]

InitFrom(r) ==
    /\ run = Idle
    /\ environ = NoEnviron
    /\ home = NoTokenFile
    /\ remote = NoRemote
    /\ session = NoSession
    /\ isRepo = r.isRepo
    /\ commits = r.commits
    /\ branches = r.branches
    /\ head = r.head
    /\ tags = r.tags
    /\ stash = r.stash
    /\ index = r.index
    /\ wt = r.wt
    /\ today = 1
    /\ last = NoCall("none")

Init == \E r \in {FreshDirectory, ExistingRepository} : InitFrom(r)

InitBackup == InitFrom(FreshDirectory)

Initialize ==
    LET res == initialize(Repo)
    IN  /\ Len(res.r.commits) <= MaxCommits
        /\ SetRepo(res.r)
        /\ last' = Call("initialize", "", <<>>, res)
        /\ UNCHANGED <<today, run, environ, home, remote, session>>

Edit(p, content) ==
    /\ IF Has(wt, p) THEN wt[p] # content ELSE TRUE
    /\ wt' = Write(wt, p, content)
    /\ last' = NoCall("env")
    /\ UNCHANGED <<isRepo, commits, branches, head, tags, stash, index, today>>
    /\ UNCHANGED <<run, environ, home, remote, session>>

Remove(p) ==
    /\ Has(wt, p)
    /\ wt' = [q \in DOMAIN wt \ {p} |-> wt[q]]
    /\ last' = NoCall("env")
    /\ UNCHANGED <<isRepo, commits, branches, head, tags, stash, index, today>>
    /\ UNCHANGED <<run, environ, home, remote, session>>

CommitChapter(chapterPath, message) ==
    LET res == commitChapter(Repo, chapterPath, message)
    IN  /\ isRepo
        /\ Len(res.r.commits) <= MaxCommits
        /\ SetRepo(res.r)
        /\ last' = Call("commitChapter", chapterPath, message, res)
        /\ UNCHANGED <<today, run, environ, home, remote, session>>

CommitAll(message) ==
    LET res == commitAll(Repo, message)
    IN  /\ isRepo
        /\ Len(res.r.commits) <= MaxCommits
        /\ SetRepo(res.r)
        /\ last' = Call("commitAll", "", message, res)
        /\ UNCHANGED <<today, run, environ, home, remote, session>>

Backup(message) ==
    LET res == backup(Repo, message, today)
    IN  /\ isRepo
        /\ Len(res.r.commits) <= MaxBackupCommits
        /\ SetRepo(res.r)
        /\ last' = Call("backup", "", message, res)
        /\ UNCHANGED <<today, run, environ, home, remote, session>>

RestoreFromBackup(tag) ==
    LET res == restoreFromBackup(Repo, tag)
    IN  /\ isRepo
        /\ SetRepo(res.r)
        /\ last' = Call("restoreFromBackup", tag, <<>>, res)
        /\ UNCHANGED <<today, run, environ, home, remote, session>>

NextDay ==
    /\ today < MaxDay
    /\ today' = today + 1
    /\ UNCHANGED <<isRepo, commits, branches, head, tags, stash, index, wt, last>>
    /\ UNCHANGED <<run, environ, home, remote, session>>

\* The commit commands: the writer edits files and commits them.
Next ==
    \/ Initialize
    \/ \E p \in EditablePaths : \E content \in ContentsOf(p) : Edit(p, content)
    \/ \E p \in RemovablePaths : Remove(p)
    \/ \E p \in ChapterArgs : \E m \in ChapterMessages : CommitChapter(p, m)
    \/ \E m \in CommitMessages : CommitAll(m)

Spec == Init /\ [][Next]_vars

\* The backup command: the writer edits files, backs up and restores, and
\* days pass.
NextBackup ==
    \/ Initialize
    \/ \E p \in BackupEditablePaths : \E content \in ContentsOf(p) : Edit(p, content)
    \/ \E p \in RemovablePaths : Remove(p)
    \/ \E m \in BackupMessages : Backup(m)
    \/ \E t \in RestoreArgs : RestoreFromBackup(t)
    \/ NextDay

SpecBackup == InitBackup /\ [][NextBackup]_vars

\* The history command: the writer edits and commits the chapter over the
\* days and asks for the history and the word-count history.
HistoryMessages == {NoMessage, MsgPipe}

GetHistory(limit) ==
    /\ isRepo
    /\ HeadCommit(Repo) # 0
    /\ last' = Answer("getHistory", TRUE,
                      [limit |-> limit, records |-> getHistory(Repo, limit)])
    /\ UNCHANGED <<isRepo, commits, branches, head, tags, stash, index, wt, today>>
    /\ UNCHANGED <<run, environ, home, remote, session>>

GetWordCountHistory(days) ==
    /\ isRepo
    /\ HeadCommit(Repo) # 0
    /\ last' = Answer("getWordCountHistory", TRUE,
                      [days |-> days, entries |-> getWordCountHistory(Repo, days)])
    /\ UNCHANGED <<isRepo, commits, branches, head, tags, stash, index, wt, today>>
    /\ UNCHANGED <<run, environ, home, remote, session>>

NextHistory ==
    \/ Initialize
    \/ \E content \in ContentsOf("ch1.md") : Edit("ch1.md", content)
    \/ \E m \in HistoryMessages : CommitChapter("ch1.md", m)
    \/ NextDay
    \/ \E limit \in 0..MaxLimit : GetHistory(limit)
    \/ \E days \in 0..MaxDay : GetWordCountHistory(days)

InitHistory == InitFrom(FreshDirectory)

SpecHistory == InitHistory /\ [][NextHistory]_vars

\* backup --compare: the writer edits files, commits, backs up, and compares
\* two versions.
CompareRefs == {backupTagName(1), DefaultBranch, "nope"}

CompareVersions(tag1, tag2) ==
    LET res == compareVersions(Repo, tag1, tag2)
    IN  /\ isRepo
        /\ SetRepo(res.r)
        /\ last' = Answer("compareVersions", res.ok,
                          [tag1 |-> tag1, tag2 |-> tag2,
                           diff |-> res.diff, files |-> res.files])
        /\ UNCHANGED <<today, run, environ, home, remote, session>>

NextCompare ==
    \/ Initialize
    \/ \E p \in {"ch1.md", "notes.txt"} : \E content \in ContentsOf(p) : Edit(p, content)
    \/ \E p \in RemovablePaths : Remove(p)
    \/ \E m \in BackupMessages : Backup(m)
    \/ \E m \in CommitMessages : CommitAll(m)
    \/ \E tag1, tag2 \in CompareRefs : CompareVersions(tag1, tag2)

InitCompare == InitFrom(FreshDirectory)

SpecCompare == InitCompare /\ [][NextCompare]_vars

\* Credential discovery: the environment variables, the token file and the
\* project's .env file are as the user left them, and the sync command is
\* run with or without --token.
EnvironChoices ==
    {[GITHUB_TOKEN |-> a, GH_TOKEN |-> b] : a \in {<<>>, TokenEnv}, b \in {<<>>, TokenGh}}

TokenFileChoices ==
    {NoTokenFile} \cup
    {[readable |-> TRUE, content |-> c] :
        c \in {TokenHome \o <<"\n">>, <<>>, <<" ", "\n">>}}

EnvFileChoices ==
    {LitGithubToken \o TokenProject \o <<"\n">>,
     TextEnv \o <<"\n">> \o LitGithubToken \o <<"\n">> \o LitGithubToken \o <<" ">> \o TokenProject,
     TextEnv}

ProjectChoices ==
    {EmptyTree} \cup {[p \in {".env"} |-> c] : c \in EnvFileChoices}

InitToken ==
    /\ \E tree \in ProjectChoices : InitFrom(NewRepo(tree))

DiscoverToken(argvToken) ==
    /\ last' = Answer("discoverToken", TRUE,
                      [argv |-> argvToken,
                       sync |-> syncToken(argvToken, environ),
                       service |-> getGitHubToken(environ, home, wt)])
    /\ UNCHANGED <<isRepo, commits, branches, head, tags, stash, index, wt, today>>
    /\ UNCHANGED <<run, environ, home, remote, session>>

\* The user sets or clears the environment variables and the token file.
SetEnviron(env) ==
    /\ environ # env
    /\ environ' = env
    /\ last' = NoCall("env")
    /\ UNCHANGED <<isRepo, commits, branches, head, tags, stash, index, wt, today>>
    /\ UNCHANGED <<run, home, remote, session>>

SetTokenFile(tokenFile) ==
    /\ home # tokenFile
    /\ home' = tokenFile
    /\ last' = NoCall("env")
    /\ UNCHANGED <<isRepo, commits, branches, head, tags, stash, index, wt, today>>
    /\ UNCHANGED <<run, environ, remote, session>>

NextToken ==
    \/ \E env \in EnvironChoices : SetEnviron(env)
    \/ \E tokenFile \in TokenFileChoices : SetTokenFile(tokenFile)
    \/ \E argvToken \in {<<>>, TokenArg} : DiscoverToken(argvToken)

SpecToken == InitToken /\ [][NextToken]_vars

\* The sync and backup commands: the writer edits the chapter, sets up the
\* remote with or without --token, commits, backs up with or without a tag
\* name, and pushes, all on one day.
SyncSetup(argvToken) ==
    LET res == syncSetup(Repo, argvToken, RemoteArg, environ)
    IN  /\ Len(res.r.commits) <= MaxBackupCommits
        /\ SetRepo(res.r)
        /\ remote' = IF res.set THEN res.remote ELSE remote
        /\ last' = [NoCall("syncSetup") EXCEPT !.ok = res.ok, !.msg = argvToken]
        /\ UNCHANGED <<today, run, environ, home, session>>

SyncPush ==
    LET res == syncPush(Repo, remote)
    IN  /\ Len(res.r.commits) <= MaxBackupCommits
        /\ SetRepo(res.r)
        /\ last' = Call("syncPush", "", <<>>, res)
        /\ UNCHANGED <<today, run, environ, home, remote, session>>

BackupCommand(argvTag, argvMessage) ==
    LET res == backupCommand(Repo, argvTag, argvMessage, today)
    IN  /\ Len(res.r.commits) <= MaxBackupCommits
        /\ SetRepo(res.r)
        /\ last' = Call("backupCommand", argvTag, argvMessage, res)
        /\ UNCHANGED <<today, run, environ, home, remote, session>>

BackupTagArgs == {"", "v1"}

NextCli ==
    \/ \E argvToken \in {<<>>, TokenArg} : SyncSetup(argvToken)
    \/ SyncPush
    \/ \E content \in ContentsOf("ch1.md") : Edit("ch1.md", content)
    \/ \E m \in CommitMessages : CommitAll(m)
    \/ \E argvTag \in BackupTagArgs : BackupCommand(argvTag, NoMessage)

SpecCli == Init /\ [][NextCli]_vars

\* The progress chart: the writer edits and commits the chapter, with a
\* message of their own or the default one, days pass, the writer stays
\* away for the length of the chart's window, and asks for the chart.
ProgressMessages == {NoMessage, MsgFix}

VisualizeProgress ==
    LET res == visualizeProgress(Repo)
    IN  /\ isRepo
        /\ HeadCommit(Repo) # 0
        /\ last' = Answer("visualizeProgress", res.ok,
                          [history |-> getWordCountHistory(Repo, ProgressDays),
                           out |-> res.out])
        /\ UNCHANGED <<isRepo, commits, branches, head, tags, stash, index, wt, today>>
        /\ UNCHANGED <<run, environ, home, remote, session>>

MonthPasses ==
    /\ today <= MaxDay
    /\ today' = today + ProgressDays
    /\ UNCHANGED <<isRepo, commits, branches, head, tags, stash, index, wt, last>>
    /\ UNCHANGED <<run, environ, home, remote, session>>

NextProgress ==
    \/ Initialize
    \/ \E content \in ContentsOf("ch1.md") : Edit("ch1.md", content)
    \/ \E m \in ProgressMessages : CommitChapter("ch1.md", m)
    \/ NextDay
    \/ MonthPasses
    \/ VisualizeProgress

InitProgress == InitFrom(FreshDirectory)

SpecProgress == InitProgress /\ [][NextProgress]_vars

\* backup and backup --list: the writer edits the chapter, commits, backs
\* up with or without a tag name and a message, and lists the backups.
ListMessages == {NoMessage, MsgFix}

BackupList ==
    LET res == backupList(Repo)
    IN  /\ Len(res.r.commits) <= MaxBackupCommits
        /\ SetRepo(res.r)
        /\ last' = Answer("backupList", res.ok, res.backups)
        /\ UNCHANGED <<today, run, environ, home, remote, session>>

NextList ==
    \/ \E content \in ContentsOf("ch1.md") : Edit("ch1.md", content)
    \/ \E m \in CommitMessages : CommitAll(m)
    \/ \E argvTag \in BackupTagArgs : \E m \in ListMessages : BackupCommand(argvTag, m)
    \/ NextDay
    \/ BackupList

InitList == InitFrom(FreshDirectory)

SpecList == InitList /\ [][NextList]_vars

\* The sync command: the writer sets up the remote, edits the chapter and
\* the notes, commits, and runs sync with --push, --pull or neither, the
\* remote answering each remote command in one of the ways it can.
Remotely(kind, message) == [kind |-> kind, message |-> message]

PullOutcomes ==
    {Remotely("upToDate", <<>>), Remotely("incoming", <<>>)}
    \cup {Remotely("error", m) : m \in {ErrNoTracking, ErrRejected, ErrNoUsername}}

PullAgainOutcomes == {Remotely("upToDate", <<>>), Remotely("error", ErrNoUsername)}

PushOutcomes ==
    {Remotely("ok", <<>>)}
    \cup {Remotely("error", m) : m \in {ErrNoUpstream, ErrRejected, ErrNoUsername}}

PushAgainOutcomes == {Remotely("ok", <<>>), Remotely("error", ErrRejected)}

\* The answers to the remote commands of one run: a second pull or push
\* is answered only when the first one's error leads to it.
SyncOutcomes ==
    {out \in [pull : PullOutcomes, pullAgain : PullAgainOutcomes,
              push : PushOutcomes, pushAgain : PushAgainOutcomes] :
        /\ out.pull.message # ErrNoTracking => out.pullAgain = Remotely("upToDate", <<>>)
        /\ out.push.message # ErrNoUpstream => out.pushAgain = Remotely("ok", <<>>)}

\* --push, --pull, or neither flag (which is both).
SyncFlags == {<<TRUE, FALSE>>, <<FALSE, TRUE>>, <<FALSE, FALSE>>}

Sync(argvPush, argvPull, out) ==
    /\ argvPush /\ ~argvPull => out.pull = Remotely("upToDate", <<>>)
    /\ argvPull /\ ~argvPush => out.push = Remotely("ok", <<>>)
    /\ \E res \in {sync(Repo, remote, argvPush, argvPull, out)} :
          /\ Len(res.r.commits) <= MaxCommits
          /\ Len(res.r.stash) <= MaxStash
          /\ SetRepo(res.r)
          /\ last' = Answer("sync", res.exit = 0,
                            [exit |-> res.exit, guidance |-> res.guidance,
                             surfaced |-> res.surfaced, phase |-> res.phase,
                             cause |-> res.cause])
          /\ UNCHANGED <<today, run, environ, home, remote, session>>

NextSync ==
    \/ SyncSetup(NoMessage)
    \/ \E p \in {"ch1.md", "notes.txt"} : \E content \in ContentsOf(p) : Edit(p, content)
    \/ \E m \in CommitMessages : CommitAll(m)
    \/ \E flags \in SyncFlags : \E out \in SyncOutcomes : Sync(flags[1], flags[2], out)

InitSync == InitFrom(FreshDirectory)

SpecSync == InitSync /\ [][NextSync]_vars

\* The word counter applied to texts: every text of at most MaxTextLen
\* characters over a letter and two whitespace characters, and the text
\* 'one two  three'.
TextAlphabet == {"a", " ", "\n"}

CountedTexts ==
    UNION {[1..n -> TextAlphabet] : n \in 0..MaxTextLen} \cup {TextOneTwoThree}

CountWords(text) ==
    /\ last' = Answer("countWords", TRUE, [text |-> text, count |-> countWords(text)])
    /\ UNCHANGED <<isRepo, commits, branches, head, tags, stash, index, wt, today>>
    /\ UNCHANGED <<run, environ, home, remote, session>>

NextWords == \E text \in CountedTexts : CountWords(text)

InitWords == InitFrom(FreshDirectory)

SpecWords == InitWords /\ [][NextWords]_vars

\* history --chapter: the writer edits and commits the chapter, with a
\* message of their own or the default one, and asks for its history.
GetChapterHistory(chapterPath) ==
    /\ isRepo
    /\ HeadCommit(Repo) # 0
    /\ last' = [Answer("getChapterHistory", TRUE, getChapterHistory(Repo, chapterPath))
                   EXCEPT !.arg = chapterPath]
    /\ UNCHANGED <<isRepo, commits, branches, head, tags, stash, index, wt, today>>
    /\ UNCHANGED <<run, environ, home, remote, session>>

NextChapterHistory ==
    \/ Initialize
    \/ \E content \in ContentsOf("ch1.md") : Edit("ch1.md", content)
    \/ \E p \in RemovablePaths : Remove(p)
    \/ \E m \in ChapterMessages : CommitChapter("ch1.md", m)
    \/ \E m \in CommitMessages : CommitAll(m)
    \/ \E p \in ChapterArgs : GetChapterHistory(p)

InitChapterHistory == InitFrom(FreshDirectory)

SpecChapterHistory == InitChapterHistory /\ [][NextChapterHistory]_vars

----------------------------------------------------------------------------
(* The operations engine call by engine call.  A call in flight holds the  *)
(* engine calls it still has to make; the process can be killed between    *)
(* two of them.                                                            *)

\* The engine calls of an operation that change the repository or the
\* project directory, in the order the operation awaits them.
EngineCalls(op) ==
    CASE op = "initialize" -> <<"init", "writeFile", "add", "commit">>
      [] op = "commitChapter" -> <<"add", "commit">>
      [] op = "commitAll" -> <<"addAll", "commit">>
      [] op = "backup" -> <<"addAll", "commit", "addTag">>
      [] op = "restoreFromBackup" -> <<"checkout", "checkoutLocalBranch">>

\* What an operation reads before its first such call: the path it stages
\* or the tag it names, and the message it will commit with.
StartedCall(op, arg, message) ==
    [op |-> op,
     arg |-> CASE op = "initialize" -> ".gitignore"
               [] op = "backup" -> backupTagName(today)
               [] OTHER -> arg,
     msg |-> CASE op = "initialize" -> InitialCommitMessage
               [] op = "commitChapter" -> commitChapterMessage(Repo, arg, message)
               [] op = "commitAll" -> encodeTotalWords(message, getTotalWordCount(Repo))
               [] op = "backup" ->
                    encodeTotalWords(backupMessage(message, today), getTotalWordCount(Repo))
               [] OTHER -> <<>>,
     calls |-> EngineCalls(op),
     made |-> 0,
     before |-> Repo]

EngineCall(call, r, c) ==
    CASE call = "init" -> GitInit(r)
      [] call = "writeFile" ->
            [ok |-> TRUE, r |-> [r EXCEPT !.wt = Write(r.wt, ".gitignore", gitignoreContent)]]
      [] call = "add" -> GitAdd(r, c.arg)
      [] call = "addAll" -> GitAddAll(r)
      [] call = "commit" -> GitCommit(r, c.msg)
      [] call = "addTag" -> GitAddTag(r, c.arg)
      [] call = "checkout" -> GitCheckout(r, c.arg)
      [] call = "checkoutLocalBranch" -> GitCheckoutLocalBranch(r, restoreBranchName(c.arg))

Ended(op, ok) ==
    [op |-> op, ok |-> ok, arg |-> run.arg, msg |-> <<>>, commit |-> 0, tag |-> "",
     value |-> <<>>]

Begin(op, arg, message) ==
    /\ run.op = ""
    /\ IF op = "initialize" THEN ~isRepo ELSE isRepo
    /\ run' = StartedCall(op, arg, message)
    /\ last' = NoCall("running")
    /\ UNCHANGED <<isRepo, commits, branches, head, tags, stash, index, wt, today>>
    /\ UNCHANGED <<environ, home, remote, session>>

\* The call in flight makes its next engine call; a call that is rejected
\* ends the operation, and so does the last one.
Step ==
    /\ run.op # ""
    /\ LET res == EngineCall(Head(run.calls), Repo, run)
       IN  /\ Len(res.r.commits) <= MaxStepCommits
           /\ SetRepo(res.r)
           /\ IF ~res.ok \/ Len(run.calls) = 1
              THEN run' = Idle /\ last' = Ended(run.op, res.ok)
              ELSE /\ run' = [run EXCEPT !.calls = Tail(run.calls), !.made = run.made + 1]
                   /\ UNCHANGED last
    /\ UNCHANGED <<today, environ, home, remote, session>>

\* The process is killed between two engine calls of the call in flight.
Interrupt ==
    /\ run.op # ""
    /\ run.made >= 1
    /\ run' = Idle
    /\ last' = Ended("interrupted", FALSE)
    /\ UNCHANGED <<isRepo, commits, branches, head, tags, stash, index, wt, today>>
    /\ UNCHANGED <<environ, home, remote, session>>

DiffRefs == {"", DefaultBranch, backupTagName(1)}

GetDiff(fromCommit, toCommit) ==
    LET res == getDiff(Repo, fromCommit, toCommit)
    IN  /\ isRepo
        /\ run.op = ""
        /\ SetRepo(res.r)
        /\ last' = Answer("getDiff", res.ok,
                          [fromCommit |-> fromCommit, toCommit |-> toCommit,
                           diff |-> res.diff])
        /\ UNCHANGED <<today, run, environ, home, remote, session>>

EditIdle(p, content) ==
    /\ run.op = ""
    /\ Edit(p, content)

NextInterrupt ==
    \/ Begin("initialize", "", NoMessage)
    \/ Begin("commitChapter", "ch1.md", NoMessage)
    \/ Begin("commitAll", "", MsgFix)
    \/ Begin("backup", "", NoMessage)
    \/ Begin("restoreFromBackup", backupTagName(1), NoMessage)
    \/ Step
    \/ Interrupt
    \/ EditIdle("ch1.md", TextA)
    \/ \E fromCommit, toCommit \in DiffRefs : GetDiff(fromCommit, toCommit)

InitInterrupt == InitFrom(FreshDirectory)

SpecInterrupt == InitInterrupt /\ [][NextInterrupt]_vars

\* commit --chapter after other work: the project is set up, the writer
\* edits the chapter and the notes, and commits everything or the chapter
\* alone, either of which can be killed between two engine calls.
InitializeIdle ==
    /\ run.op = ""
    /\ Initialize

NextChapterOnly ==
    \/ InitializeIdle
    \/ \E p \in {"ch1.md", "notes.txt"} : \E content \in ContentsOf(p) : EditIdle(p, content)
    \/ Begin("commitChapter", "ch1.md", NoMessage)
    \/ Begin("commitAll", "", MsgFix)
    \/ Step
    \/ Interrupt

InitChapterOnly == InitFrom(FreshDirectory)

SpecChapterOnly == InitChapterOnly /\ [][NextChapterOnly]_vars

\* initialize() again: a first initialize() runs engine call by engine call
\* and can be killed, later commands call initialize() anew, and the writer
\* edits and commits the chapter.
NextInitializeAgain ==
    \/ Begin("initialize", "", NoMessage)
    \/ Step
    \/ Interrupt
    \/ InitializeIdle
    \/ \E p \in {"ch1.md", "notes.txt"} : \E content \in ContentsOf(p) : EditIdle(p, content)
    \/ Begin("commitChapter", "ch1.md", NoMessage)

InitInitializeAgain == InitFrom(FreshDirectory)

SpecInitializeAgain == InitInitializeAgain /\ [][NextInitializeAgain]_vars

\* The service object of one process.  The constructor starts
\* setupAuthentication and does not await it: the task runs up to its first
\* pending await inside the constructor and goes on when the file reads
\* complete.  session.auth is the task's position: "readTokenFile" and
\* "readEnvFile" wait for a readFile, "resume" is the continuation of
\* setupAuthentication after its await, queued as a microtask.
Construct ==
    LET envToken == IF environ.GITHUB_TOKEN # <<>> THEN environ.GITHUB_TOKEN
                    ELSE environ.GH_TOKEN
    IN  /\ session.auth = "none"
        /\ session' = IF envToken # <<>>
                       THEN [auth |-> "resume", token |-> <<envToken>>, credential |-> <<>>]
                       ELSE [auth |-> "readTokenFile", token |-> Null, credential |-> <<>>]
        /\ last' = NoCall("constructor")
        /\ UNCHANGED <<isRepo, commits, branches, head, tags, stash, index, wt, today>>
        /\ UNCHANGED <<run, environ, home, remote>>

\* readFile(~/.writer/github-token) completes.
ReadTokenFile ==
    /\ session.auth = "readTokenFile"
    /\ session' = IF home.readable
                   THEN [session EXCEPT !.auth = "resume", !.token = <<Trim(home.content)>>]
                   ELSE [session EXCEPT !.auth = "readEnvFile"]
    /\ last' = NoCall("readFile")
    /\ UNCHANGED <<isRepo, commits, branches, head, tags, stash, index, wt, today>>
    /\ UNCHANGED <<run, environ, home, remote>>

\* readFile(<project>/.env) completes.
ReadEnvFile ==
    LET match == IF Has(wt, ".env") THEN MatchGithubToken(wt[".env"], 1) ELSE <<>>
    IN  /\ session.auth = "readEnvFile"
        /\ session' = [session EXCEPT
                          !.auth = "resume",
                          !.token = IF match # <<>> THEN <<Trim(match[1])>> ELSE Null]
        /\ last' = NoCall("readFile")
        /\ UNCHANGED <<isRepo, commits, branches, head, tags, stash, index, wt, today>>
        /\ UNCHANGED <<run, environ, home, remote>>

\* setupAuthentication after its await: if (token) this.git.env({...}).
SetupAuthentication ==
    /\ session.auth = "resume"
    /\ session' = [session EXCEPT
                      !.auth = "done",
                      !.credential = IF session.token # Null /\ session.token[1] # <<>>
                                     THEN session.token[1] ELSE <<>>]
    /\ last' = NoCall("setupAuthentication")
    /\ UNCHANGED <<isRepo, commits, branches, head, tags, stash, index, wt, today>>
    /\ UNCHANGED <<run, environ, home, remote>>

\* What the remote answers to a command run with or without the credential
\* environment.
RemoteAnswers(credential, fine) ==
    {Remotely(fine, <<>>),
     Remotely("error", IF credential = <<>> THEN ErrNoUsername ELSE ErrRejected)}

\* A caller that holds the service object calls pushToRemote or
\* pullFromRemote.  The engine runs the command with the environment the
\* session has at that moment; a queued microtask runs before it.
PushToRemote(outcome) ==
    /\ session.auth \notin {"none", "resume"}
    /\ last' = Answer("pushToRemote", outcome.kind # "error",
                      [credential |-> session.credential])
    /\ UNCHANGED <<isRepo, commits, branches, head, tags, stash, index, wt, today>>
    /\ UNCHANGED <<run, environ, home, remote, session>>

PullFromRemote(outcome) ==
    LET res == GitPull(Repo, outcome)
    IN  /\ session.auth \notin {"none", "resume"}
        /\ Len(res.r.commits) <= MaxCommits
        /\ SetRepo(res.r)
        /\ last' = Answer("pullFromRemote", res.ok, [credential |-> session.credential])
        /\ UNCHANGED <<today, run, environ, home, remote, session>>

\* The process ends; the next command makes a new service object.
Exit ==
    /\ session.auth # "none"
    /\ session' = NoSession
    /\ last' = NoCall("exit")
    /\ UNCHANGED <<isRepo, commits, branches, head, tags, stash, index, wt, today>>
    /\ UNCHANGED <<run, environ, home, remote>>

NextSession ==
    \/ \E env \in EnvironChoices : session.auth = "none" /\ SetEnviron(env)
    \/ \E tokenFile \in TokenFileChoices : session.auth = "none" /\ SetTokenFile(tokenFile)
    \/ Construct
    \/ ReadTokenFile
    \/ ReadEnvFile
    \/ SetupAuthentication
    \/ \E outcome \in RemoteAnswers(session.credential, "ok") : PushToRemote(outcome)
    \/ \E outcome \in RemoteAnswers(session.credential, "incoming") : PullFromRemote(outcome)
    \/ Exit

InitSession ==
    \E tree \in ProjectChoices :
        InitFrom([ExistingRepository EXCEPT
                    !.wt = [p \in DOMAIN tree \cup DOMAIN @ |->
                              IF p \in DOMAIN tree THEN tree[p] ELSE @[p]]])

SpecSession == InitSession /\ [][NextSession]_vars

----------------------------------------------------------------------------
(* Claims *)

\* The step is a call of operation op on the service (NextDay alone leaves
\* `last` as it is and changes today).
IsCall(op) == last'.op = op /\ today' = today

Chapter == "ch1.md"

\* C1: commitChapter(path, M) with a caller-supplied message M on a file of N
\* words stores exactly M + ' (N words)', and getHistory(1)[0].wordCount is N.
C1_ChapterMessageEncodesCount ==
    (/\ last.op = "commitChapter" /\ last.ok /\ last.commit # 0
     /\ last.msg # NoMessage /\ Has(wt, last.arg))
    => /\ commits[last.commit].message = encodeWords(last.msg, countWords(wt[last.arg]))
       /\ getHistory(Repo, 1)[1].wordCount = <<countWords(wt[last.arg])>>

\* C2: a backup() that directly follows a successful backup(), with no file
\* change in between (same day or not), succeeds, returns another tag and
\* creates no commit.
C2_BackupTwiceDistinctTags ==
    [][(last.op = "backup" /\ last.ok /\ IsCall("backup"))
       => /\ last'.ok
          /\ last'.tag # last.tag
          /\ last'.tag \in DOMAIN tags'
          /\ last.tag \in DOMAIN tags'
          /\ commits' = commits]_vars

\* C3: backup() is all-or-nothing: a call that fails leaves no new commit and
\* no new tag, and on a clean tree the call succeeds and tags HEAD.
C3_BackupAllOrNothing ==
    [][IsCall("backup")
       => /\ ~last'.ok => (commits' = commits /\ tags' = tags)
          /\ GitStatusFiles(Repo) = {}
                => /\ last'.ok
                   /\ commits' = commits
                   /\ last'.tag \in DOMAIN tags'
                   /\ tags'[last'.tag] = HeadCommit(Repo)]_vars

C5_RestoreLeavesBranches ==
    [][(IsCall("restoreFromBackup") /\ last'.ok /\ last'.arg \in DOMAIN tags)
       => /\ head'.branch = restoreBranchName(last'.arg)
          /\ ~(head'.branch \in DOMAIN branches)
          /\ branches'[head'.branch] = tags[last'.arg]
          /\ \A b \in DOMAIN branches :
                b \in DOMAIN branches' /\ branches'[b] = branches[b]
          /\ commits' = commits
          /\ tags' = tags
          /\ head.branch # ""
                => /\ head.branch \in DOMAIN branches'
                   /\ branches'[head.branch] = branches[head.branch]
                   /\ head'.branch # head.branch]_vars

\* C5 witness: restored from a tag that is behind the branch left.
C5_Witness ==
    /\ last.op = "restoreFromBackup" /\ last.ok /\ last.arg \in DOMAIN tags
    /\ head.branch = restoreBranchName(last.arg)
    /\ DefaultBranch \in DOMAIN branches
    /\ branches[DefaultBranch] # tags[last.arg]

\* C6: the chapter is committed and backed up under tag T (T is HEAD), then
\* modified, then restoreFromBackup(T) is called: a new branch restore-T
\* holds the chapter as it was before the modification, and the branch left
\* holds the modification.
C6_BackupRestoreCycle ==
    [][(/\ IsCall("restoreFromBackup") /\ last'.ok
        /\ last'.arg \in DOMAIN tags
        /\ head.branch # ""
        /\ tags[last'.arg] = HeadCommit(Repo)
        /\ Has(HeadTree(Repo), Chapter) /\ Has(wt, Chapter)
        /\ wt[Chapter] # HeadTree(Repo)[Chapter])
       => /\ restoreBranchName(last'.arg) \in DOMAIN branches'
          /\ Same(TreeOf(Repo', branches'[restoreBranchName(last'.arg)]),
                  HeadTree(Repo), Chapter)
          /\ Same(TreeOf(Repo', branches'[head.branch]), wt, Chapter)]_vars

\* C7: restoreFromBackup(tag) with a tag that does not exist fails, creates
\* no branch and leaves HEAD and the current branch as they were.
C7_RestoreMissingTagFails ==
    [][(IsCall("restoreFromBackup") /\ ~(last'.arg \in DOMAIN tags))
       => /\ ~last'.ok
          /\ branches' = branches
          /\ head' = head]_vars

\* The sum of countWords over every writing file of the working tree.
getTotalWordCountAllFiles(r) ==
    SumWordCounts(r, {p \in Paths : Has(r.wt, p)})

\* C8: the count commitAll encodes is the sum of countWords over all writing
\* files of the project, changed or not.
C8_TotalCountsAllWritingFiles ==
    (last.op = "commitAll" /\ last.ok /\ last.commit # 0)
    => commits[last.commit].message
          = encodeTotalWords(last.msg, getTotalWordCountAllFiles(Repo))

\* Message texts of the round trip: free texts, and texts ending in a
\* beginning of the pattern.
RoundTripTexts ==
    {<<>>, MsgFix, MsgPat, 
     <<"(", "1">>, 
     <<"(", "1", " ">>, 
     <<"(", "1", "2", " ", "t", "o", "t", "a", "l">>, 
     <<"(", "1", "2", " ", "t", "o", "t", "a", "l", " ">>, 
     <<"x", " ", "(", "3", " ", "w", "o", "r", "d">>, 
     <<"(", "7", " ", "w", "o", "r", "d", "s", ")", " ", "(">>}

RoundTrip ==
    \A S \in RoundTripTexts : \A N \in 0..MaxCount :
        FirstMatch(S, 1) = <<>>
        => /\ extractWordCountFromMessage(encodeWords(S, N)) = <<N>>
           /\ extractWordCountFromMessage(encodeTotalWords(S, N)) = <<N>>

NoParenthesis(m) == \A i \in 1..Len(m) : m[i] # "("

C15_InitializeIdempotent ==
    [][IsCall("initialize")
       => /\ isRepo => (Repo' = Repo /\ last'.ok)
          /\ initialize(Repo').ok
          /\ initialize(Repo').r = Repo']_vars

\* C15 witness: initialize() ran on a repository made by hand, which still
\* has its one commit and no ignore file.
C15_Witness ==
    /\ last.op = "initialize" /\ last.ok
    /\ Len(commits) = 1 /\ commits[1].message = MsgFix
    /\ ~Has(wt, ".gitignore")

\* The first commit as initialize() on a directory that is no repository
\* makes it: the repository exists, the default ignore file is written,
\* the one commit holds that file alone, and its message is firstMessage.
FirstCommitIs(firstMessage) ==
    (IsCall("initialize") /\ ~isRepo)
    => /\ last'.ok
       /\ isRepo'
       /\ wt' = Write(wt, ".gitignore", gitignoreContent)
       /\ Len(commits') = 1
       /\ commits'[1].parent = 0
       /\ commits'[1].tree = [p \in {".gitignore"} |-> gitignoreContent]
       /\ index' = commits'[1].tree
       /\ HeadCommit(Repo') = 1
       /\ commits'[1].message = firstMessage

SpecInitialCommitMessage ==
    <<"I", "n", "i", "t", "i", "a", "l", " ", "c", "o", "m", "m", "i", "t", ":", " ", "p", "r", "o", "j", "e", "c", "t", " ", "s", "e", "t", "u", "p">>

\* C16 as claimed: on a directory that is not yet a repository initialize()
\* creates the repository, writes the default ignore file, stages only that
\* file and creates exactly one commit, with the message
\* 'Initial commit: project setup'.
C16_FirstCommitProjectSetup == [][FirstCommitIs(SpecInitialCommitMessage)]_vars

\* C16 as amended: the same, with the message
\* 'Initial commit: Writer project setup'.
C16_FirstCommitWriterProjectSetup == [][FirstCommitIs(InitialCommitMessage)]_vars

\* C16 witness: initialize() made the first commit in a directory that
\* already held a chapter, which the commit leaves out.
C16_Witness ==
    /\ last.op = "initialize" /\ last.ok
    /\ Len(commits) = 1 /\ commits[1].message = InitialCommitMessage
    /\ Has(wt, Chapter) /\ ~Has(commits[1].tree, Chapter)

Min(a, b) == IF a < b THEN a ELSE b

WindowCommits(days) ==
    LET InWindow(c) == commits[c].day > today - days
    IN  SelectSeq([c \in 1..Len(commits) |-> c], InWindow)

\* The count a commit's whole message encodes, 0 when it encodes none.
WholeMessageCount(c) ==
    LET decoded == extractWordCountFromMessage(commits[c].message)
    IN  IF decoded = Undefined THEN 0 ELSE decoded[1]

\* C12: getWordCountHistory(days) returns one entry per commit of the
\* trailing window, oldest first; an entry's wordCount is the count its
\* commit's whole message encodes, or 0; its change is its wordCount minus
\* the previous entry's, and the first entry's change is its wordCount.
C12_WordCountHistoryPerCommit ==
    [][IsCall("getWordCountHistory")
       => LET window == WindowCommits(last'.value.days)
              e == last'.value.entries
          IN  /\ Len(e) = Len(window)
              /\ \A i \in 1..Len(e) :
                    /\ e[i].date = timestamp(commits[window[i]].day)
                    /\ e[i].wordCount = WholeMessageCount(window[i])
                    /\ e[i].change = e[i].wordCount
                                       - (IF i = 1 THEN 0 ELSE e[i - 1].wordCount)]_vars

\* The set of the elements of a sequence.
Range(seq) == {seq[i] : i \in 1..Len(seq)}

\* C13: for two refs A and B, compareVersions(A, B).diff.filesChanged is the
\* number of distinct paths in compareVersions(A, B).files, and those are
\* the paths on which the trees of A and B differ.
C13_FilesChangedCountsFiles ==
    [][(IsCall("compareVersions") /\ last'.ok)
       => LET v == last'.value
              treeA == TreeOf(Repo, RevParse(Repo, v.tag1))
              treeB == TreeOf(Repo, RevParse(Repo, v.tag2))
          IN  /\ v.diff.filesChanged = Cardinality(Range(v.files))
              /\ Range(v.files) = {PathChars(p) : p \in {q \in Paths : ~Same(treeA, treeB, q)}}]_vars

\* C13 witness: two versions compared that differ in two files, one of them
\* absent from the second.
C13_Witness ==
    /\ last.op = "compareVersions" /\ last.ok
    /\ last.value.diff.filesChanged = 2
    /\ last.value.tag1 # last.value.tag2
    /\ ~Has(TreeOf(Repo, RevParse(Repo, last.value.tag2)), Chapter)

\* The paths on which two trees differ.
DifferingPaths(left, right) == {p \in Paths : ~Same(left, right, p)}

\* C14: getDiff(from?, to?) leaves the working tree, the index, HEAD, the
\* branches and the tags as they were; with no ref it compares the working
\* tree with the last commit (when there is one), with one ref that ref
\* with the working tree, with both the two refs.
C14_DiffComparesAndLeavesAlone ==
    [][IsCall("getDiff")
       => /\ Repo' = Repo
          /\ (last'.ok /\ HeadCommit(Repo) # 0)
             => LET v == last'.value
                    given == {v.fromCommit, v.toCommit} \ {""}
                    one == CHOOSE g \in given : TRUE
                    left == IF given = {} THEN HeadTree(Repo)
                            ELSE IF v.fromCommit # "" /\ v.toCommit # ""
                                 THEN TreeOf(Repo, RevParse(Repo, v.fromCommit))
                                 ELSE TreeOf(Repo, RevParse(Repo, one))
                    right == IF v.fromCommit # "" /\ v.toCommit # ""
                             THEN TreeOf(Repo, RevParse(Repo, v.toCommit))
                             ELSE TrackedWorkTree(Repo)
                IN  v.diff.filesChanged = Cardinality(DifferingPaths(left, right))]_vars

\* The step kills the call in flight.
Interrupted == run.op # "" /\ run'.op = "" /\ last'.op = "interrupted"

\* Some files written or staged, with no new commit: the repository is the
\* one the operation started on but for the working tree and the index.
FilesWithoutCommit(b) ==
    /\ isRepo = b.isRepo
    /\ commits = b.commits
    /\ branches = b.branches
    /\ head = b.head
    /\ tags = b.tags

\* A commit created on the branch checked out, its tag not yet created.
CommitWithoutTag(b) ==
    /\ isRepo = b.isRepo
    /\ Len(commits) = Len(b.commits) + 1
    /\ head = b.head
    /\ head.branch # ""
    /\ HeadCommit(Repo) = Len(commits)
    /\ tags = b.tags

\* C20: a mutating operation killed between two of its engine calls leaves
\* either files written or staged with no new commit, or a commit without
\* its tag, and nothing else.
C20_InterruptedPartialStates ==
    [][Interrupted
       => FilesWithoutCommit(run.before) \/ CommitWithoutTag(run.before)]_vars

\* The token of the highest-priority source that has one (<<>> when none
\* has): --token, GITHUB_TOKEN, GH_TOKEN, the token file, the .env line.
TokenByPriority(argvToken) ==
    LET fromFile == IF home.readable THEN Trim(home.content) ELSE <<>>
        line == IF Has(wt, ".env") THEN MatchGithubToken(wt[".env"], 1) ELSE <<>>
        fromProject == IF line # <<>> THEN Trim(line[1]) ELSE <<>>
        sources == <<argvToken, environ.GITHUB_TOKEN, environ.GH_TOKEN, fromFile, fromProject>>
        having == {i \in 1..Len(sources) : sources[i] # <<>>}
    IN  IF having = {} THEN <<>>
        ELSE sources[CHOOSE i \in having : \A j \in having : i <= j]

\* The token the discovery ends with: the sync command's when it has one,
\* the service's otherwise (<<>> when neither has).
DiscoveredToken(v) ==
    IF v.sync # <<>> THEN v.sync
    ELSE IF v.service # Null THEN v.service[1]
    ELSE <<>>

\* C17: credential discovery gives the token of the highest-priority source
\* that has one, a lower source being consulted whenever every higher one
\* is missing, unreadable or empty, and it never fails.
C17_TokenByPriority ==
    last.op = "discoverToken"
    => /\ last.ok
       /\ DiscoveredToken(last.value) = TokenByPriority(last.value.argv)

\* C18: whatever sync --setup (with --token), commit, backup and sync --push
\* do, on a fresh directory or on a repository that existed before, no
\* commit holds a file that contains the token.
C18_TokenNotInHistory ==
    \A c \in 1..Len(commits) : \A p \in Paths :
        Has(commits[c].tree, p) => ~Includes(commits[c].tree[p], TokenArg)

\* C19: the tag a successful backup command creates and reports is draft-T
\* when it is given the tag name T, and backup-<today> when it is given none.
C19_BackupTagName ==
    [][(IsCall("backupCommand") /\ last'.ok)
       => /\ last'.tag \in DOMAIN tags'
          /\ ~(last'.tag \in DOMAIN tags)
          /\ last'.tag = IF last'.arg # "" THEN "draft-" \o last'.arg
                         ELSE backupTagName(today)]_vars

\* The chart lines of a history whose every entry counts 0, as they are
\* with bars of length zero: '<date>  0 words (0)'.
RECURSIVE ZeroBarLines(_)
ZeroBarLines(h) ==
    IF h = <<>> THEN <<>>
    ELSE h[1].date \o <<" ", " ", "0", " ", "w", "o", "r", "d", "s", " ", "(", "0", ")", "\n">>
         \o ZeroBarLines(Tail(h))

\* C21: visualizeProgress never raises and never returns an empty string;
\* with no history entry it returns 'No writing history found.' alone, and
\* when every entry's wordCount is 0 it renders, under the two header
\* lines, one line per entry with a bar of length zero.
C21_ProgressDegenerateHistories ==
    [][IsCall("visualizeProgress")
       => LET h == last'.value.history
              out == last'.value.out
          IN  /\ last'.ok
              /\ out # <<>>
              /\ h = <<>> => out = LitNoHistory
              /\ (h # <<>> /\ \A i \in 1..Len(h) : h[i].wordCount = 0)
                 => out = ProgressHeader \o ZeroBarLines(h)]_vars

\* C21 witness: the chart was drawn for two commits that encode no count.
C21_Witness ==
    /\ last.op = "visualizeProgress" /\ last.ok
    /\ Len(last.value.history) = 2
    /\ \A i \in 1..2 : last.value.history[i].wordCount = 0
    /\ Len(last.value.out) > Len(ProgressHeader)

\* The chart was asked for when every commit is older than its window.
C21_NoEntries ==
    /\ last.op = "visualizeProgress" /\ last.value.history = <<>>
    /\ last.value.out = LitNoHistory

\* The commits the backup command made snapshots of: those a tag names
\* (no other command of the model creates a tag).
Snapshots == {tags[t] : t \in DOMAIN tags}

\* C22: backup --list lists every snapshot the backup command created
\* earlier, whatever its message and whether or not the working tree had
\* changes, and lists nothing that is not a backup.
C22_ListShowsAllBackups ==
    [][IsCall("backupList")
       => /\ last'.ok
          /\ {last'.value[i].hash : i \in 1..Len(last'.value)} = Snapshots]_vars

\* A remote command failed because the credentials are missing or rejected.
CredentialFailure(message) == message \in {ErrRejected, ErrNoUsername}

\* C23: when the push or the pull of sync fails because credentials are
\* missing or rejected, the command prints the token guidance and exits
\* non-zero, on the pull path as on the push path, and the engine's error
\* message is not what it prints.
C23_CredentialFailureGuidance ==
    [][(IsCall("sync") /\ CredentialFailure(last'.value.cause))
       => /\ last'.value.exit # 0
          /\ last'.value.guidance
          /\ last'.value.surfaced = <<>>]_vars

\* C27: when a run of sync ends in or right after its pull phase, however
\* the pull went, every file that had an uncommitted change before the
\* command is in the working tree as it was, and the stash stack holds
\* the entries it held before the command.
C27_PullRestoresLocalChanges ==
    [][(IsCall("sync") /\ last'.value.phase = "pull")
       => /\ \A p \in GitStatusFiles(initialize(Repo).r) : Same(wt', wt, p)
          /\ stash' = stash]_vars

\* The positions of a text where a token begins: a character that is no
\* whitespace, at the start of the text or after a whitespace character.
TokenStarts(text) ==
    {i \in 1..Len(text) :
        /\ ~(text[i] \in Whitespace)
        /\ (i = 1 \/ text[i - 1] \in Whitespace)}

\* C24: the word counter returns the number of non-empty tokens between
\* runs of whitespace: 0 for the empty text, 0 for whitespace alone, 3 for
\* 'one two  three'; whitespace added in front, at the end or next to other
\* whitespace never adds to the count.
C24_CountWordsTokens ==
    /\ countWords(<<>>) = 0
    /\ countWords(<<" ", " ", " ">>) = 0
    /\ countWords(TextOneTwoThree) = 3
    /\ last.op = "countWords"
       => LET text == last.value.text
              count == last.value.count
          IN  /\ count = Cardinality(TokenStarts(text))
              /\ (\A i \in 1..Len(text) : text[i] \in Whitespace) => count = 0
              /\ \A ws \in Whitespace :
                    /\ countWords(<<ws>> \o text) = count
                    /\ countWords(text \o <<ws>>) = count
                    /\ \A i \in 1..Len(text) :
                          text[i] \in Whitespace
                          => countWords(SubSeq(text, 1, i) \o <<ws>>
                                        \o SubSeq(text, i + 1, Len(text))) = count

\* C24 witness: a text with whitespace in front, repeated whitespace and
\* whitespace at the end was counted as two words.
C24_Witness ==
    /\ last.op = "countWords"
    /\ last.value.text = <<" ", "a", " ", "\n", "a">>
    /\ last.value.count = 2

\* C25: every record of getChapterHistory(path) has the wordCount its
\* message encodes, and none when the message encodes none, and agrees on
\* wordCount with the record getHistory gives for the same commit.
C25_ChapterHistoryWordCount ==
    [][IsCall("getChapterHistory")
       => LET records == last'.value
              history == getHistory(Repo, Len(commits))
          IN  \A i \in 1..Len(records) :
                 /\ records[i].message = commits[records[i].hash].message
                 /\ records[i].wordCount = extractWordCountFromMessage(records[i].message)
                 /\ \A j \in 1..Len(history) :
                       history[j].hash = records[i].hash
                       => history[j].wordCount = records[i].wordCount]_vars

\* The step ends a commitChapter that created a commit.
ChapterCommitted ==
    /\ run.op = "commitChapter" /\ run'.op = ""
    /\ last'.op = "commitChapter" /\ last'.ok
    /\ Len(commits') = Len(commits) + 1

\* C26: the commit commitChapter(path) creates differs from its parent in
\* the chapter file alone, and every other file that was modified,
\* untracked or staged when it was called has the same status afterwards.
C26_CommitChapterOnlyChapter ==
    [][ChapterCommitted
       => \A p \in Paths \ {run.arg} :
             /\ Same(commits'[Len(commits')].tree, HeadTree(run.before), p)
             /\ (p \in GitStatusFiles(run.before)) <=> (p \in GitStatusFiles(Repo'))]_vars

\* C28: a restoreFromBackup(tag) of an existing tag that fails leaves HEAD
\* attached to the branch that was checked out before the call, not
\* detached at the tag's commit.
C28_RestoreFailureKeepsHead ==
    [][(IsCall("restoreFromBackup") /\ ~last'.ok /\ last'.arg \in DOMAIN tags)
       => /\ head' = head
          /\ head.branch # "" => head'.branch # ""]_vars

\* C29: whenever initialize() returns successfully the repository has at
\* least one commit, which HEAD is at, and the default ignore file exists,
\* also after an earlier initialize() that was killed before its commit.
C29_InitializedHasCommit ==
    [][(IsCall("initialize") /\ last'.ok)
       => /\ isRepo'
          /\ Len(commits') >= 1
          /\ HeadCommit(Repo') # 0
          /\ Has(wt', ".gitignore")]_vars

\* A token that setupAuthentication would hand to git.env can be discovered.
TokenDiscoverable ==
    LET token == getGitHubToken(environ, home, wt)
    IN  token # Null /\ token[1] # <<>>

\* C30: when a token is discoverable, every pushToRemote and pullFromRemote
\* of a caller runs its remote command with the credential environment that
\* the constructor's setupAuthentication sets, in every interleaving.
C30_CredentialsBeforeRemoteCommand ==
    [][((IsCall("pushToRemote") \/ IsCall("pullFromRemote")) /\ TokenDiscoverable)
       => last'.value.credential = getGitHubToken(environ, home, wt)[1]]_vars

====
